---- MODULE Spec2Model ----
(***************************************************************************)
(* wg-ondemand: on-demand WireGuard activation daemon.                     *)
(*                                                                         *)
(* The module models the supervisor loop of src/wg-ondemand/src/main.rs    *)
(* together with the objects it owns (StateManager, EbpfManager,           *)
(* RouteManager, WgController), the Wi-Fi monitor task, the attach-retry   *)
(* tasks and the environment they observe (interface address, Wi-Fi        *)
(* admission, tunnel link, kernel ring buffer).                            *)
(*                                                                         *)
(* The specifications defined:                                             *)
(*   Spec          the supervisor with its tasks and environment;          *)
(*   SpecSM        the StateManager alone, driven by arbitrary command     *)
(*                 sequences (the way the unit tests of state.rs drive it);*)
(*   SpecLog       the supervisor with a record of the commands received;  *)
(*   SpecDrain     the ring tick step by step;                             *)
(*   SpecAdmit     the Wi-Fi admission predicate and the monitor;          *)
(*   SpecExit      signals, the end of the monitor and the shutdown tail;  *)
(*   SpecRetry     one attach-retry task step by step;                     *)
(*   SpecActivity  WgController's activity tracking with a clock;          *)
(*   SpecCidr      parse_cidr and ip_in_subnets, one call at a time;       *)
(*   SpecLoad      the daemon from EbpfManager::load on;                   *)
(*   SpecTransfer  parse_wg_transfer_output, one call at a time;           *)
(*   SpecRoute     RouteManager's add_routes and remove_routes against the *)
(*                 kernel's routing table;                                 *)
(*   SpecStart     the daemon from its initial admission check on, with    *)
(*                 the Wi-Fi network of the host (SpecStartFair: with the  *)
(*                 scheduling of the loop and the monitor task);           *)
(*   SpecEbpf      EbpfManager's attach and detach in any order;           *)
(*   SpecMatch     the kernel classifier over the array load wrote;        *)
(*   SpecIdle      the idle tick with the tunnel's transfer counters;      *)
(*   SpecGateway   the supervisor with the gateway cache on a host that    *)
(*                 moves between networks.                                 *)
(***************************************************************************)
EXTENDS Integers, Sequences, FiniteSets, TLC

(***************************************************************************)
(* Bounds of the model.                                                    *)
(***************************************************************************)
\* most commands waiting in the state-command channel
MaxPending == 2
\* most events waiting in the network-event channel
MaxNetPending == 1
\* most records the ring buffer holds at one tick
MaxRing == 1
\* most attach-retry tasks that exist at once
MaxTasks == 2
\* longest command sequence applied to the bare state machine (SpecSM)
MaxCmds == 5
\* commands the logged supervisor records
MaxLog == 3

(***************************************************************************)
(* Program constants.                                                      *)
(***************************************************************************)
MAX_ATTACHMENT_RETRIES == 5
INITIAL_RETRY_DELAY_SECS == 1
STATE_COMMAND_CHANNEL_SIZE == 32
NETWORK_EVENT_CHANNEL_SIZE == 32

(***************************************************************************)
(* Configuration and inputs.  An IPv4 address (a u32 in network byte       *)
(* order) is written as its four octets, most significant first.           *)
(***************************************************************************)
\* config.subnets.ranges: each CIDR is the address part and the prefix
ranges == << [addr |-> <<10, 0, 0, 0>>, prefix |-> 24],
             [addr |-> <<172, 16, 0, 0>>, prefix |-> 12] >>

\* get_interface_ip: None when the interface has no IPv4 address
NoIP == <<>>
IpOutside == <<192, 168, 1, 5>>
IpInside == <<10, 0, 0, 55>>
HostIPs == {NoIP, IpOutside, IpInside}

RECURSIVE Pow2(_)
Pow2(n) == IF n = 0 THEN 1 ELSE 2 * Pow2(n - 1)

RECURSIVE BitAnd(_, _)
BitAnd(a, b) ==
    IF a = 0 \/ b = 0 THEN 0
    ELSE (a % 2) * (b % 2) + 2 * BitAnd(a \div 2, b \div 2)

\* octet i (1..4) of the u32 value !0u32 << (32 - p), for 1 <= p <= 32
MaskOctet(p, i) ==
    LET bits == IF p >= 8 * i THEN 8
                ELSE IF p <= 8 * (i - 1) THEN 0
                ELSE p - 8 * (i - 1)
    IN 256 - Pow2(8 - bits)

And32(x, y) == [i \in 1..4 |-> BitAnd(x[i], y[i])]

\* parse_cidr without the branch for prefix 0: the shift by 32 wraps to a
\* shift by 0
parse_cidr_shift_only(cidr) ==
    LET mask == IF cidr.prefix = 0 THEN <<255, 255, 255, 255>>
                ELSE [i \in 1..4 |-> MaskOctet(cidr.prefix, i)]
    IN [network |-> And32(cidr.addr, mask), mask |-> mask]

parse_cidr(cidr) ==
    LET mask == IF cidr.prefix = 0 THEN <<0, 0, 0, 0>>
                ELSE [i \in 1..4 |-> MaskOctet(cidr.prefix, i)]
    IN [network |-> And32(cidr.addr, mask), mask |-> mask]

\* ip_in_subnets that compares the address without applying the mask
ip_in_subnets_unmasked(ip, subnet_cidrs) ==
    \E k \in 1..Len(subnet_cidrs) : ip = parse_cidr(subnet_cidrs[k]).network

\* ip_in_subnets that looks at the first subnet only
ip_in_subnets_first_only(ip, subnet_cidrs) ==
    /\ subnet_cidrs # <<>>
    /\ And32(ip, parse_cidr(subnet_cidrs[1]).mask) = parse_cidr(subnet_cidrs[1]).network

ip_in_subnets(ip, subnet_cidrs) ==
    \E k \in 1..Len(subnet_cidrs) :
        And32(ip, parse_cidr(subnet_cidrs[k]).mask) = parse_cidr(subnet_cidrs[k]).network

RangeSet == {ranges[k] : k \in 1..Len(ranges)}

(***************************************************************************)
(* The kernel's SUBNETS map and EbpfManager::load (ebpf_loader.rs 29-89).  *)
(* The map is an array of MAX_SUBNETS [network, mask] pairs, zeroed when   *)
(* the object is loaded.                                                   *)
(***************************************************************************)
\* Array::with_max_entries(16, 0) (wg-ondemand-ebpf main.rs 27)
MAX_SUBNETS == 16

\* EMPTY_SENTINEL: 0xFFFFFFFF
EMPTY_SENTINEL == <<255, 255, 255, 255>>

\* the map as Bpf::load creates it
ZeroedMap == [i \in 1..MAX_SUBNETS |-> <<<<0, 0, 0, 0>>, <<0, 0, 0, 0>>>>]

\* load() that leaves the slots after the last subnet as they are
load_no_sentinel(map, subnets) ==
    [i \in 1..MAX_SUBNETS |->
        IF i <= Len(subnets)
        THEN <<parse_cidr(subnets[i]).network, parse_cidr(subnets[i]).mask>>
        ELSE map[i]]

\* load(): the map after the two loops, slot i + 1 of the model being slot i
\* of the array; subnets past the 16th are ignored
load(map, subnets) ==
    [i \in 1..MAX_SUBNETS |->
        IF i <= Len(subnets)
        THEN <<parse_cidr(subnets[i]).network, parse_cidr(subnets[i]).mask>>
        ELSE <<EMPTY_SENTINEL, EMPTY_SENTINEL>>]

\* is_target_subnet (wg-ondemand-ebpf main.rs 105-128): the 16 slots in order,
\* a slot holding the sentinel pair skipped
is_target_subnet(addr, map) ==
    \E i \in 1..MAX_SUBNETS :
        /\ ~(map[i][1] = EMPTY_SENTINEL /\ map[i][2] = EMPTY_SENTINEL)
        /\ And32(addr, map[i][2]) = map[i][1]

(***************************************************************************)
(* parse_cidr on the text (config.rs 97-108).  A string is the sequence of *)
(* its pieces: a decimal number, a '.', a '/', or anything else.           *)
(***************************************************************************)
Num(v) == [k |-> "num", v |-> v]
Dot == [k |-> ".", v |-> 0]
Slash == [k |-> "/", v |-> 0]
Junk == [k |-> "x", v |-> 0]

\* how "a.b.c.d/p" is written
CidrText(addr, prefix) ==
    <<Num(addr[1]), Dot, Num(addr[2]), Dot, Num(addr[3]), Dot, Num(addr[4]),
      Slash, Num(prefix)>>

RECURSIVE split(_)
\* cidr.split('/').collect(): the pieces between the slashes, empty ones included
split(text) ==
    IF \A i \in 1..Len(text) : text[i] # Slash
    THEN <<text>>
    ELSE LET i == CHOOSE j \in 1..Len(text) :
                    text[j] = Slash /\ \A h \in 1..(j - 1) : text[h] # Slash
         IN <<SubSeq(text, 1, i - 1)>> \o split(SubSeq(text, i + 1, Len(text)))

\* parts[0].parse::<Ipv4Addr>(): four decimal fields of at most 255 between
\* dots; <<>> is the error
parse_ipv4(part) ==
    IF /\ Len(part) = 7
       /\ \A i \in {1, 3, 5, 7} : part[i].k = "num" /\ part[i].v <= 255
       /\ \A i \in {2, 4, 6} : part[i] = Dot
    THEN <<part[1].v, part[3].v, part[5].v, part[7].v>>
    ELSE <<>>

\* parts[1].parse::<u8>(): one decimal number of at most 255; -1 is the error
parse_u8(part) ==
    IF Len(part) = 1 /\ part[1].k = "num" /\ part[1].v <= 255 THEN part[1].v ELSE -1

CidrErr == [ok |-> FALSE, network |-> <<>>, mask |-> <<>>]

\* parse_cidr(cidr: &str): Err, or Ok((network, mask))
parse_cidr_str(text) ==
    LET parts == split(text)
    IN IF Len(parts) # 2 THEN CidrErr
       ELSE LET addr == parse_ipv4(parts[1])
                prefix_len == parse_u8(parts[2])
            IN IF addr = <<>> THEN CidrErr
               ELSE IF prefix_len = -1 THEN CidrErr
               ELSE IF prefix_len > 32 THEN CidrErr
               ELSE LET r == parse_cidr([addr |-> addr, prefix |-> prefix_len])
                    IN [ok |-> TRUE, network |-> r.network, mask |-> r.mask]

\* no call was made yet
NoCidrCall == [fn |-> "none", text |-> <<>>, ip |-> <<>>, subnets |-> <<>>,
               ok |-> FALSE, network |-> <<>>, mask |-> <<>>, contained |-> FALSE]

(***************************************************************************)
(* State machine (state.rs).                                               *)
(***************************************************************************)
TunnelState == {"Inactive", "Monitoring", "Activating", "Active", "Deactivating"}

StateCommand == {"StartMonitoring", "StopMonitoring", "TrafficDetected", "TunnelUp",
                 "TunnelDown", "IdleTimeout", "TunnelAlreadyUp", "RetryEbpfAttachment"}

StateAction == {"ActivateTunnel", "DeactivateTunnel", "AttachEbpf", "DetachEbpf", "None"}

\* handle_command without the arm (Activating, StopMonitoring)
handle_command_no_stop_activating(s, cmd) ==
    CASE s = "Inactive" /\ cmd = "StartMonitoring" ->
            [action |-> "AttachEbpf", state |-> "Monitoring"]
      [] s = "Monitoring" /\ cmd = "StopMonitoring" ->
            [action |-> "DetachEbpf", state |-> "Inactive"]
      [] s = "Active" /\ cmd = "StopMonitoring" ->
            [action |-> "DeactivateTunnel", state |-> "Deactivating"]
      [] s = "Monitoring" /\ cmd = "TrafficDetected" ->
            [action |-> "ActivateTunnel", state |-> "Activating"]
      [] s = "Monitoring" /\ cmd = "TunnelAlreadyUp" ->
            [action |-> "None", state |-> "Active"]
      [] s = "Activating" /\ cmd = "TunnelUp" ->
            [action |-> "DetachEbpf", state |-> "Active"]
      [] s = "Deactivating" /\ cmd = "TunnelDown" ->
            [action |-> "AttachEbpf", state |-> "Monitoring"]
      [] s = "Active" /\ cmd = "IdleTimeout" ->
            [action |-> "DeactivateTunnel", state |-> "Deactivating"]
      [] OTHER ->
            [action |-> "None", state |-> s]

\* handle_command whose TunnelUp arm does not look at the state
handle_command_any_tunnel_up(s, cmd) ==
    CASE s = "Inactive" /\ cmd = "StartMonitoring" ->
            [action |-> "AttachEbpf", state |-> "Monitoring"]
      [] s = "Monitoring" /\ cmd = "StopMonitoring" ->
            [action |-> "DetachEbpf", state |-> "Inactive"]
      [] s = "Active" /\ cmd = "StopMonitoring" ->
            [action |-> "DeactivateTunnel", state |-> "Deactivating"]
      [] s = "Activating" /\ cmd = "StopMonitoring" ->
            [action |-> "DetachEbpf", state |-> "Inactive"]
      [] s = "Monitoring" /\ cmd = "TrafficDetected" ->
            [action |-> "ActivateTunnel", state |-> "Activating"]
      [] s = "Monitoring" /\ cmd = "TunnelAlreadyUp" ->
            [action |-> "None", state |-> "Active"]
      [] cmd = "TunnelUp" ->
            [action |-> "DetachEbpf", state |-> "Active"]
      [] s = "Deactivating" /\ cmd = "TunnelDown" ->
            [action |-> "AttachEbpf", state |-> "Monitoring"]
      [] s = "Active" /\ cmd = "IdleTimeout" ->
            [action |-> "DeactivateTunnel", state |-> "Deactivating"]
      [] OTHER ->
            [action |-> "None", state |-> s]

\* handle_command: the pair (returned action, new state)
handle_command(s, cmd) ==
    CASE s = "Inactive" /\ cmd = "StartMonitoring" ->
            [action |-> "AttachEbpf", state |-> "Monitoring"]
      [] s = "Monitoring" /\ cmd = "StopMonitoring" ->
            [action |-> "DetachEbpf", state |-> "Inactive"]
      [] s = "Active" /\ cmd = "StopMonitoring" ->
            [action |-> "DeactivateTunnel", state |-> "Deactivating"]
      [] s = "Activating" /\ cmd = "StopMonitoring" ->
            [action |-> "DetachEbpf", state |-> "Inactive"]
      [] s = "Monitoring" /\ cmd = "TrafficDetected" ->
            [action |-> "ActivateTunnel", state |-> "Activating"]
      [] s = "Monitoring" /\ cmd = "TunnelAlreadyUp" ->
            [action |-> "None", state |-> "Active"]
      [] s = "Activating" /\ cmd = "TunnelUp" ->
            [action |-> "DetachEbpf", state |-> "Active"]
      [] s = "Deactivating" /\ cmd = "TunnelDown" ->
            [action |-> "AttachEbpf", state |-> "Monitoring"]
      [] s = "Active" /\ cmd = "IdleTimeout" ->
            [action |-> "DeactivateTunnel", state |-> "Deactivating"]
      [] OTHER ->
            [action |-> "None", state |-> s]


(***************************************************************************)
(* State.                                                                  *)
(***************************************************************************)
VARIABLES
    pc,                 \* async_main: "start" before the initial check, then "run"
    state,              \* StateManager.state
    stateQ,             \* state-command channel (state_tx / state_rx)
    netQ,               \* network-event channel (network_tx / network_rx)
    link_id,            \* EbpfManager.link_id.is_some(): the classifier is on the egress hook
    ringbuf,            \* EbpfManager.ringbuf.is_some()
    eventsMap,          \* the EVENTS map is still owned by the Bpf object
    active_routes,      \* RouteManager.active_routes
    retry_in_progress,  \* the retry guard (AtomicBool)
    tasks,              \* attach-retry tasks
    last_bytes,         \* WgController.(last_rx_bytes, last_tx_bytes)
    last_activity,      \* WgController.last_activity.is_some()
    nm_connection,      \* WgController.nm_connection.is_some()
    monPc,              \* Wi-Fi monitor task: "unspawned", "running"
    was_connected,      \* SsidMonitor::monitor's was_connected
    ip,                 \* environment: IPv4 address of the monitored interface
    tunnelUp,           \* environment: the WireGuard link: "down", or who brought it up
    lastNetEvent,       \* history: the last network event the supervisor received
    attachOutcome,      \* history: what the last AttachEbpf branch did
    lastCmd,            \* SpecSM history: last command applied
    prevState,          \* SpecSM history: state before the last command
    lastAction,         \* SpecSM history: action returned for the last command
    filterLog,          \* SpecSM history: AttachEbpf/DetachEbpf actions returned so far
    nCmds,              \* SpecSM history: number of commands applied
    cmdLog,             \* SpecLog history: commands the supervisor received so far
    actLog,             \* SpecLog history: the actions it ran for them
    current_ssid,       \* SpecAdmit environment: what current_ssid() returns
    target_ssids,       \* SsidMonitor.target_ssids
    exclude_ssids,      \* SsidMonitor.exclude_ssids
    state_file,         \* SpecExit: /run/wg-ondemand/state exists
    shutdownDid,        \* SpecExit history: what graceful_shutdown called
    cidrCall,           \* SpecCidr, SpecLoad: the last call of parse_cidr, ip_in_subnets or load
    SUBNETS,            \* the kernel's SUBNETS array map (wg-ondemand-ebpf main.rs 27)
    actHist,            \* SpecActivity: the clock, the stamp in last_activity, the last call
    xferCall,           \* SpecTransfer: the last call of parse_wg_transfer_output
    gateway,            \* RouteManager.gateway
    rtable,             \* environment: the kernel's routing table
    hostGateway,        \* environment: the gateway of the network the host is on
    routeHist,          \* SpecRoute history: the last RouteManager call and the commands it ran
    ebpfCalls,          \* the attach() and detach() calls made on the manager, with their results
    counters,           \* the (rx, tx) transfer counters of the tunnel interface
    data,               \* SpecDrain: the record the ring tick's rb.next() last returned
    retry               \* SpecRetry: the one retry task, step by step

\* the variables only SpecAdmit changes
ssidVars == <<current_ssid, target_ssids, exclude_ssids>>

\* the variables only SpecExit changes
exitVars == <<state_file, shutdownDid>>

\* the route manager's gateway cache, the routes the kernel holds, the
\* gateway of the network and the record of the last RouteManager call
routeVars == <<gateway, rtable, hostGateway, routeHist>>

\* the variables that the supervisor specification Spec leaves alone
smVars == <<lastCmd, prevState, lastAction, filterLog, nCmds, cmdLog, actLog, ssidVars,
            exitVars, retry, data, actHist, cidrCall, SUBNETS,
            xferCall, routeVars,
            ebpfCalls,
            counters>>

ebpfVars == <<link_id, ringbuf, eventsMap>>

wgVars == <<last_bytes, last_activity, nm_connection>>

envVars == <<ip, tunnelUp>>

vars == <<pc, state, stateQ, netQ, link_id, ringbuf, eventsMap,
          active_routes, retry_in_progress, tasks, last_bytes, last_activity,
          nm_connection, monPc, was_connected, ip, tunnelUp,
          lastNetEvent, attachOutcome, lastCmd, prevState, lastAction,
          filterLog, nCmds, cmdLog, actLog,
          current_ssid, target_ssids, exclude_ssids,
          state_file, shutdownDid, retry, data, actHist, cidrCall, SUBNETS,
          xferCall, gateway, rtable, hostGateway, routeHist,
          ebpfCalls,
          counters>>

\* no call of the activity tracking was made yet; stamp is the Instant in
\* last_activity (-1: None), now the monotonic clock
NoActivityCall ==
    [now |-> 0, stamp |-> -1, call |-> "none", stats |-> <<>>, ret |-> "none", dur |-> -1,
     at |-> 0, pre_bytes |-> <<0, 0>>, pre_activity |-> FALSE, pre_stamp |-> -1]

\* rb.next() returned None: the ring is empty
NoRecord == 0

\* no call of parse_wg_transfer_output was made yet
NoTransferCall == [fn |-> "none", output |-> <<>>, panicked |-> FALSE,
                   rx |-> <<0, 0, 0, 0>>, tx |-> <<0, 0, 0, 0>>]

\* no retry task was spawned yet
NoRetryTask ==
    [pc |-> "none", attempt |-> 0, delay_secs |-> 0, slept |-> 0, probes |-> 0,
     found |-> FALSE]

\* config.general.idle_timeout, in idle-timer ticks
idle_timeout == 1

\* what Instant::elapsed() can return for the stored stamp, in the same units
Elapsed == 0..(idle_timeout + 1)

\* size_of::<TrafficEvent>()
TrafficEventSize == 8 + 4 + 2 + 1 + 1

\* byte lengths a ring record can have
RecordLens == {TrafficEventSize, 12, 24}

\* summed (rx, tx) pairs the netlink query can return
StatsInputs == {<<0, 0>>, <<0, 1>>}

\* RouteManager.gateway is None
NoGateway == <<>>

\* gateways a network can have: two whose texts differ in the last digits
\* only, and one of another network
GatewayA == <<192, 168, 1, 1>>
GatewayA100 == <<192, 168, 1, 100>>
GatewayB == <<10, 9, 0, 1>>

\* no call of the route manager was made yet
NoRouteCall == [call |-> "none", cmds |-> {}, pre_active |-> {}, ok |-> TRUE]

\* RouteManager::new, on a host with no route to the configured subnets
InitRoutes ==
    /\ gateway = NoGateway
    /\ rtable = {}
    /\ hostGateway = GatewayA
    /\ routeHist = NoRouteCall

\* the daemon after EbpfManager::load(&monitor_iface, &config.subnets.ranges)
InitLoaded == SUBNETS = load(ZeroedMap, ranges)

InitCommon ==
    /\ state = "Inactive"
    /\ stateQ = <<>>
    /\ netQ = <<>>
    /\ link_id = FALSE
    /\ ringbuf = FALSE
    /\ eventsMap = TRUE
    /\ active_routes = {}
    /\ retry_in_progress = FALSE
    /\ tasks = <<>>
    /\ last_bytes = <<0, 0>>
    /\ last_activity = FALSE
    /\ monPc = "unspawned"
    /\ was_connected = FALSE
    /\ lastNetEvent = "none"
    /\ attachOutcome = "none"
    /\ lastCmd = "none"
    /\ prevState = "Inactive"
    /\ lastAction = "None"
    /\ filterLog = <<>>
    /\ nCmds = 0
    /\ cmdLog = <<>>
    /\ actLog = <<>>
    /\ state_file = FALSE
    /\ shutdownDid = {}
    /\ retry = NoRetryTask
    /\ data = NoRecord
    /\ actHist = NoActivityCall
    /\ cidrCall = NoCidrCall
    /\ counters = <<0, 0>>
    /\ ebpfCalls = <<>>
    /\ xferCall = NoTransferCall

\* no Wi-Fi connection
NoSsid == <<>>

\* Spec draws the result of every SSID lookup, so the lists play no part in it
InitSsid ==
    /\ current_ssid = NoSsid
    /\ target_ssids = <<>>
    /\ exclude_ssids = <<>>

Init ==
    /\ InitCommon
    /\ InitLoaded
    /\ InitRoutes
    /\ InitSsid
    /\ pc = "start"
    /\ nm_connection \in BOOLEAN
    /\ ip \in HostIPs
    /\ tunnelUp \in {"down", "external"}


(***************************************************************************)
(* EbpfManager (ebpf_loader.rs).  The manager is the record of its fields; *)
(* tcOk is whether the kernel accepts the TC attach.                       *)
(***************************************************************************)
EbpfManager == [link_id |-> link_id, ringbuf |-> ringbuf, eventsMap |-> eventsMap]

\* attach() that reports Ok without storing the link
attach_link_not_stored(e, tcOk) == [e |-> e, ok |-> TRUE]

\* attach(): the manager afterwards, and whether Ok was returned
attach(e, tcOk) ==
    IF e.link_id THEN [e |-> e, ok |-> TRUE]
    ELSE IF ~tcOk THEN [e |-> e, ok |-> FALSE]
    ELSE IF e.eventsMap
         THEN [e |-> [link_id |-> TRUE, ringbuf |-> TRUE, eventsMap |-> FALSE], ok |-> TRUE]
         ELSE [e |-> [e EXCEPT !.link_id = TRUE], ok |-> FALSE]

\* detach() that drops the ring buffer but leaves the link in place
detach_link_kept(e) == [e EXCEPT !.ringbuf = FALSE]

\* detach(): link_id.take(), the link is removed, the cached ring buffer dropped
detach(e) ==
    IF e.link_id THEN [e EXCEPT !.link_id = FALSE, !.ringbuf = FALSE]
    ELSE e

\* detach() with its result: detachOk is whether the kernel removes the link;
\* when it does not, `?` returns after link_id.take() and before the cached
\* ring buffer is cleared
detach_result(e, detachOk) ==
    IF ~e.link_id THEN [e |-> e, ok |-> TRUE]
    ELSE IF detachOk THEN [e |-> detach(e), ok |-> TRUE]
    ELSE [e |-> [e EXCEPT !.link_id = FALSE], ok |-> FALSE]

is_attached(e) == e.link_id

poll_events(e) == e.ringbuf

(***************************************************************************)
(* RouteManager (route_manager.rs).  added is the set of subnets whose     *)
(* route add succeeded (or whose route already existed); it is empty when  *)
(* the gateway cannot be detected.                                         *)
(***************************************************************************)
add_routes(active, subnets, added) == active \cup (added \cap (subnets \ active))

remove_routes(active) == {}

(***************************************************************************)
(* WgController (wg_controller.rs): activity tracking.                     *)
(***************************************************************************)
\* the netlink query failed
StatsErr == <<>>

\* check_activity(): stats is the pair the netlink query returns, or StatsErr;
\* ok is whether it returns Ok, has_activity what Ok carries (FALSE as well
\* when the query failed)
\* check_activity() that watches the received bytes only
check_activity_rx_only(lb, la, stats) ==
    IF stats = StatsErr
    THEN [last_bytes |-> lb, last_activity |-> la, has_activity |-> FALSE, ok |-> FALSE]
    ELSE IF stats[1] # lb[1]
         THEN [last_bytes |-> stats, last_activity |-> TRUE, has_activity |-> TRUE, ok |-> TRUE]
         ELSE [last_bytes |-> lb, last_activity |-> la, has_activity |-> FALSE, ok |-> TRUE]

check_activity(lb, la, stats) ==
    IF stats = StatsErr
    THEN [last_bytes |-> lb, last_activity |-> la, has_activity |-> FALSE, ok |-> FALSE]
    ELSE IF stats[1] # lb[1] \/ stats[2] # lb[2]
         THEN [last_bytes |-> stats, last_activity |-> TRUE, has_activity |-> TRUE, ok |-> TRUE]
         ELSE [last_bytes |-> lb, last_activity |-> la, has_activity |-> FALSE, ok |-> TRUE]

\* idle_duration() that reads a missing stamp as one taken at start-up
idle_duration_always_some(la, elapsed) == elapsed

\* idle_duration(): None (-1) until the first stamp, else the time elapsed since it
idle_duration(la, elapsed) == IF la THEN elapsed ELSE -1

\* reset_activity(): zero the stored counters and stamp last_activity
reset_activity == [last_bytes |-> <<0, 0>>, last_activity |-> TRUE]

\* is_up(): `ip link show` succeeds; link is "down", "external" (up before the
\* daemon started) or "daemon" (brought up by bring_up)
is_up(link) == link # "down"

\* what running the external tool for `down` can give while the link is as
\* given: it could not be started ("spawn_err"), it succeeded ("ok"), or it
\* exited non-zero with a stderr that holds "not an active connection"
\* ("not_active"), "is not a WireGuard interface" ("not_wireguard") or
\* neither ("other").  A tool asked to take down what is not up fails with
\* its own such message.
ToolResults(nm, link) ==
    IF is_up(link) THEN {"spawn_err", "ok", "other"}
    ELSE {"spawn_err", IF nm THEN "not_active" ELSE "not_wireguard", "other"}

\* bring_down(): Ok is returned; nm is nm_connection.is_some(), tool is what
\* running nmcli (nm) or wg-quick gave
bring_down_ok(nm, tool) ==
    IF tool = "spawn_err" THEN FALSE
    ELSE IF nm THEN TRUE
    ELSE tool = "ok" \/ tool = "not_wireguard"

(***************************************************************************)
(* Supervisor: startup (main.rs 323-351).                                  *)
(***************************************************************************)
\* an initial check that has the tunnel activated by a traffic command
StartupCore_by_traffic(initial_connected) ==
    /\ pc = "start"
    /\ LET tunnel_already_up == is_up(tunnelUp)
       IN stateQ' = IF initial_connected
                    THEN IF tunnel_already_up
                         THEN <<"StartMonitoring", "TrafficDetected">>
                         ELSE <<"StartMonitoring">>
                    ELSE <<>>
    /\ pc' = "run"
    /\ UNCHANGED <<state, netQ, ebpfVars, active_routes, retry_in_progress,
                   tasks, wgVars, monPc, was_connected, envVars, lastNetEvent,
                   attachOutcome>>

\* the initial check, up to the first turn of the loop
StartupCore(initial_connected) ==
    /\ pc = "start"
    /\ LET tunnel_already_up == is_up(tunnelUp)
       IN stateQ' = IF initial_connected
                    THEN IF tunnel_already_up
                         THEN <<"StartMonitoring", "TunnelAlreadyUp">>
                         ELSE <<"StartMonitoring">>
                    ELSE <<>>
    /\ pc' = "run"
    /\ UNCHANGED <<state, netQ, ebpfVars, active_routes, retry_in_progress,
                   tasks, wgVars, monPc, was_connected, envVars, lastNetEvent,
                   attachOutcome>>

StartupOn(initial_connected) == StartupCore(initial_connected) /\ UNCHANGED smVars

Startup == \E initial_connected \in BOOLEAN : StartupOn(initial_connected)

(***************************************************************************)
(* Wi-Fi monitor task (ssid_monitor.rs 196-257).                           *)
(***************************************************************************)
MonitorInit ==
    /\ pc = "run"
    /\ monPc = "unspawned"
    /\ monPc' = "running"
    /\ \E is_connected \in BOOLEAN : was_connected' = is_connected
    /\ UNCHANGED <<pc, state, stateQ, netQ, ebpfVars, active_routes,
                   retry_in_progress, tasks, wgVars, envVars, lastNetEvent,
                   attachOutcome, smVars>>

\* a monitor that sends on every successful lookup, whatever was_connected is
MonitorSignalOn_level(lookup) ==
    /\ monPc = "running"
    /\ IF lookup = "err" THEN UNCHANGED <<netQ, was_connected>>
       ELSE LET is_connected == (lookup = "true")
            IN /\ Len(netQ) < MaxNetPending
               /\ netQ' = Append(netQ, IF is_connected THEN "ConnectedToTarget"
                                                       ELSE "Disconnected")
               /\ was_connected' = is_connected
    /\ UNCHANGED <<pc, state, stateQ, ebpfVars, active_routes,
                   retry_in_progress, tasks, wgVars, monPc, envVars, lastNetEvent,
                   attachOutcome, smVars>>

\* one PrimaryConnection signal; lookup is what is_connected_to_target returns
MonitorSignalOn(lookup) ==
    /\ monPc = "running"
    /\ IF lookup = "err" THEN UNCHANGED <<netQ, was_connected>>
       ELSE LET is_connected == (lookup = "true")
            IN /\ IF is_connected /\ ~was_connected
                  THEN /\ Len(netQ) < MaxNetPending
                       /\ netQ' = Append(netQ, "ConnectedToTarget")
                  ELSE IF ~is_connected /\ was_connected
                  THEN /\ Len(netQ) < MaxNetPending
                       /\ netQ' = Append(netQ, "Disconnected")
                  ELSE UNCHANGED netQ
               /\ was_connected' = is_connected
    /\ UNCHANGED <<pc, state, stateQ, ebpfVars, active_routes,
                   retry_in_progress, tasks, wgVars, monPc, envVars, lastNetEvent,
                   attachOutcome, smVars>>

Lookups == {"true", "false", "err"}

MonitorSignal == \E lookup \in Lookups : MonitorSignalOn(lookup)

(***************************************************************************)
(* Supervisor: network events (main.rs 403-418).                           *)
(***************************************************************************)
NetworkEvent ==
    /\ pc = "run"
    /\ netQ # <<>>
    /\ Len(stateQ) < MaxPending
    /\ netQ' = Tail(netQ)
    /\ lastNetEvent' = Head(netQ)
    /\ IF Head(netQ) = "ConnectedToTarget"
       THEN /\ stateQ' = Append(stateQ, "StartMonitoring")
            /\ UNCHANGED retry_in_progress
       ELSE /\ retry_in_progress' = FALSE
            /\ stateQ' = Append(stateQ, "StopMonitoring")
    /\ UNCHANGED <<pc, state, ebpfVars, active_routes, tasks, wgVars, monPc,
                   was_connected, envVars, attachOutcome, smVars>>


(***************************************************************************)
(* Attach-retry tasks (main.rs 118-188).  The live tasks are anonymous, so *)
(* tasks is the ordered list of their positions: position k in             *)
(* 1..MAX_ATTACHMENT_RETRIES is the sleep before probe k, and Finishing is *)
(* a task that has left the loop and is about to clear the guard.          *)
(***************************************************************************)
Finishing == MAX_ATTACHMENT_RETRIES + 1

\* the sleep before probe k lasts INITIAL_RETRY_DELAY_SECS * 2^(k-1) seconds
delay_secs(k) == INITIAL_RETRY_DELAY_SECS * Pow2(k - 1)

TaskInsert(ts, x) ==
    SelectSeq(ts, LAMBDA y : y < x) \o <<x>> \o SelectSeq(ts, LAMBDA y : y >= x)

TaskRemove(ts, i) == SubSeq(ts, 1, i - 1) \o SubSeq(ts, i + 1, Len(ts))

\* spawn_attachment_retry_task: the guard and the tasks afterwards
spawn_attachment_retry_task(guard, ts) ==
    IF guard THEN [guard |-> TRUE, tasks |-> ts]
    ELSE [guard |-> TRUE, tasks |-> TaskInsert(ts, 1)]

\* the sleep of one attempt ends and the task probes the interface address
RetryProbe(i) ==
    /\ i <= Len(tasks)
    /\ tasks[i] # Finishing
    /\ \E probeOk \in BOOLEAN :
         IF probeOk /\ ip # NoIP
         THEN /\ Len(stateQ) < MaxPending
              /\ stateQ' = Append(stateQ, "RetryEbpfAttachment")
              /\ tasks' = TaskInsert(TaskRemove(tasks, i), Finishing)
         ELSE /\ UNCHANGED stateQ
              /\ tasks' = TaskInsert(TaskRemove(tasks, i),
                                     IF tasks[i] = MAX_ATTACHMENT_RETRIES
                                     THEN Finishing ELSE tasks[i] + 1)
    /\ UNCHANGED <<pc, state, netQ, ebpfVars, active_routes, retry_in_progress,
                   wgVars, monPc, was_connected, envVars, lastNetEvent,
                   attachOutcome, smVars>>

\* retry_in_progress.store(false) and the task ends
RetryFinish(i) ==
    /\ i <= Len(tasks)
    /\ tasks[i] = Finishing
    /\ retry_in_progress' = FALSE
    /\ tasks' = TaskRemove(tasks, i)
    /\ UNCHANGED <<pc, state, stateQ, netQ, ebpfVars, active_routes,
                   wgVars, monPc, was_connected, envVars, lastNetEvent,
                   attachOutcome, smVars>>

(***************************************************************************)
(* Supervisor: state commands (main.rs 421-528).                           *)
(***************************************************************************)
\* StateAction::AttachEbpf (main.rs 425-478)
AttachEbpfBranch ==
    /\ stateQ' = Tail(stateQ)
    /\ UNCHANGED <<last_bytes, last_activity, tunnelUp>>
    /\ \E probeOk \in BOOLEAN, added \in SUBSET RangeSet, tcOk \in BOOLEAN :
         IF ~probeOk
         THEN /\ attachOutcome' = "failed"
              /\ UNCHANGED <<ebpfVars, active_routes, retry_in_progress, tasks>>
         ELSE IF ip = NoIP
         THEN /\ retry_in_progress \/ Len(tasks) < MaxTasks
              /\ LET r == spawn_attachment_retry_task(retry_in_progress, tasks)
                 IN /\ retry_in_progress' = r.guard
                    /\ tasks' = r.tasks
              /\ attachOutcome' = "no_ip"
              /\ UNCHANGED <<ebpfVars, active_routes>>
         ELSE IF ip_in_subnets(ip, ranges)
         THEN /\ attachOutcome' = "overlap"
              /\ UNCHANGED <<ebpfVars, active_routes, retry_in_progress, tasks>>
         ELSE LET a == attach(EbpfManager, tcOk)
                  routes == add_routes(active_routes, RangeSet, added)
              IN /\ active_routes' = routes
                 /\ link_id' = a.e.link_id
                 /\ ringbuf' = a.e.ringbuf
                 /\ eventsMap' = a.e.eventsMap
                 /\ attachOutcome' = IF a.ok /\ routes = RangeSet
                                     THEN "attached" ELSE "failed"
                 /\ UNCHANGED <<retry_in_progress, tasks>>

\* StateAction::DetachEbpf (main.rs 480-492)
DetachEbpfBranch ==
    /\ stateQ' = Tail(stateQ)
    /\ LET e == detach(EbpfManager)
       IN /\ link_id' = e.link_id
          /\ ringbuf' = e.ringbuf
          /\ eventsMap' = e.eventsMap
    /\ active_routes' = remove_routes(active_routes)
    /\ attachOutcome' = "none"
    /\ UNCHANGED <<retry_in_progress, tasks, last_bytes, last_activity, tunnelUp>>

\* StateAction::ActivateTunnel (main.rs 494-506); upOk is bring_up's result
ActivateTunnelBranch ==
    /\ \E upOk \in BOOLEAN :
         IF upOk
         THEN /\ tunnelUp' = IF is_up(tunnelUp) THEN tunnelUp ELSE "daemon"
              /\ last_bytes' = reset_activity.last_bytes
              /\ last_activity' = reset_activity.last_activity
              /\ stateQ' = Append(Tail(stateQ), "TunnelUp")
         ELSE /\ stateQ' = Tail(stateQ)
              /\ UNCHANGED <<tunnelUp, last_bytes, last_activity>>
    /\ UNCHANGED <<ebpfVars, active_routes, retry_in_progress, tasks, attachOutcome>>

\* StateAction::DeactivateTunnel (main.rs 508-518); tool is what the tool gave
DeactivateTunnelBranch ==
    /\ \E tool \in ToolResults(nm_connection, tunnelUp) :
         /\ tunnelUp' = IF tool = "ok" THEN "down" ELSE tunnelUp
         /\ stateQ' = IF bring_down_ok(nm_connection, tool)
                      THEN Append(Tail(stateQ), "TunnelDown")
                      ELSE Tail(stateQ)
    /\ UNCHANGED <<ebpfVars, active_routes, retry_in_progress, tasks, attachOutcome,
                   last_bytes, last_activity>>

NoneBranch ==
    /\ stateQ' = Tail(stateQ)
    /\ UNCHANGED <<ebpfVars, active_routes, retry_in_progress, tasks, attachOutcome,
                   last_bytes, last_activity, tunnelUp>>

\* state_rx.recv(): handle_command, then the branch of the action it returned
Dispatch ==
    /\ pc = "run"
    /\ stateQ # <<>>
    /\ LET hc == handle_command(state, Head(stateQ))
       IN /\ state' = hc.state
          /\ CASE hc.action = "AttachEbpf" -> AttachEbpfBranch
               [] hc.action = "DetachEbpf" -> DetachEbpfBranch
               [] hc.action = "ActivateTunnel" -> ActivateTunnelBranch
               [] hc.action = "DeactivateTunnel" -> DeactivateTunnelBranch
               [] OTHER -> NoneBranch
    /\ UNCHANGED <<pc, netQ, nm_connection, monPc, was_connected, ip, lastNetEvent>>

ProcessCommand == Dispatch /\ UNCHANGED smVars

(***************************************************************************)
(* Supervisor: ring tick (main.rs 531-559) and idle tick (main.rs 562-591).*)
(***************************************************************************)
ValidRecords(r) == SelectSeq(r, LAMBDA len : len = TrafficEventSize)

\* what the kernel ring buffer can hold at a tick: the byte lengths of its records
RingContents == UNION {[1..n -> RecordLens] : n \in 1..MaxRing}

\* the tick drains the records the attached classifier has submitted since the last one
RingTick ==
    /\ pc = "run"
    /\ poll_events(EbpfManager)
    /\ \E ring \in RingContents :
         /\ Len(stateQ) + Len(ValidRecords(ring)) <= MaxPending
         /\ stateQ' = stateQ \o [k \in 1..Len(ValidRecords(ring)) |-> "TrafficDetected"]
    /\ UNCHANGED <<pc, state, netQ, ebpfVars, active_routes, retry_in_progress, tasks,
                   wgVars, monPc, was_connected, envVars, lastNetEvent,
                   attachOutcome, smVars>>

\* idle_timer.tick() with the inputs it reads: stats is what the netlink query
\* returns, elapsed the time since the stored stamp as the tick reads it (a
\* stamp that check_activity took in this very tick is 0 old).  Outside Active
\* the tick does nothing.
IdleTickOn(stats, elapsed) ==
    /\ pc = "run"
    /\ IF state = "Active"
       THEN LET c == check_activity(last_bytes, last_activity, stats)
                d == idle_duration(c.last_activity, IF c.has_activity THEN 0 ELSE elapsed)
            IN /\ last_bytes' = c.last_bytes
               /\ last_activity' = c.last_activity
               /\ IF d # -1 /\ d > idle_timeout
                  THEN /\ Len(stateQ) < MaxPending
                       /\ stateQ' = Append(stateQ, "IdleTimeout")
                  ELSE UNCHANGED stateQ
       ELSE UNCHANGED <<last_bytes, last_activity, stateQ>>
    /\ UNCHANGED <<pc, state, netQ, ebpfVars, active_routes, retry_in_progress,
                   tasks, nm_connection, monPc, was_connected, envVars, lastNetEvent,
                   attachOutcome, smVars>>

\* the inputs are read in Active only
IdleTick ==
    IF state = "Active"
    THEN \E stats \in StatsInputs \cup {StatsErr}, elapsed \in Elapsed :
            IdleTickOn(stats, elapsed)
    ELSE IdleTickOn(StatsErr, 0)

(***************************************************************************)
(* Environment.                                                            *)
(***************************************************************************)
\* the interface gets, loses or changes its IPv4 address (DHCP, roaming)
IpChange ==
    /\ \E new \in HostIPs \ {ip} : ip' = new
    /\ UNCHANGED <<pc, state, stateQ, netQ, ebpfVars, active_routes,
                   retry_in_progress, tasks, wgVars, monPc, was_connected,
                   tunnelUp, lastNetEvent, attachOutcome, smVars>>

Next ==
    \/ Startup
    \/ MonitorInit
    \/ MonitorSignal
    \/ NetworkEvent
    \/ ProcessCommand
    \/ RingTick
    \/ IdleTick
    \/ \E i \in 1..MaxTasks : RetryProbe(i)
    \/ \E i \in 1..MaxTasks : RetryFinish(i)
    \/ IpChange

Spec == Init /\ [][Next]_vars

(***************************************************************************)
(* The StateManager alone: StateManager::new, then handle_command applied  *)
(* to an arbitrary command, MaxCmds times at most.                         *)
(***************************************************************************)
FilterActions == {"AttachEbpf", "DetachEbpf"}

InitSM ==
    /\ InitCommon
    /\ InitLoaded
    /\ InitRoutes
    /\ InitSsid
    /\ pc = "sm"
    /\ nm_connection = FALSE
    /\ ip = NoIP
    /\ tunnelUp = "down"

Apply(cmd) ==
    /\ nCmds < MaxCmds
    /\ LET hc == handle_command(state, cmd)
       IN /\ state' = hc.state
          /\ lastAction' = hc.action
          /\ filterLog' = IF hc.action \in FilterActions
                          THEN Append(filterLog, hc.action) ELSE filterLog
    /\ prevState' = state
    /\ lastCmd' = cmd
    /\ nCmds' = nCmds + 1
    /\ UNCHANGED <<pc, stateQ, netQ, ebpfVars, active_routes, retry_in_progress, tasks,
                   wgVars, monPc, was_connected, envVars, lastNetEvent, attachOutcome,
                   cmdLog, actLog, ssidVars, exitVars, retry,
                   data, actHist, cidrCall, SUBNETS,
                   xferCall, routeVars,
                   ebpfCalls,
                   counters>>

NextSM == \E cmd \in StateCommand : Apply(cmd)

SpecSM == InitSM /\ [][NextSM]_vars

(***************************************************************************)
(* The supervisor with a record of the first MaxLog commands it receives   *)
(* and of the action it runs for each.                                     *)
(***************************************************************************)
ProcessCommandLogged ==
    /\ Len(cmdLog) < MaxLog
    /\ Dispatch
    /\ cmdLog' = Append(cmdLog, Head(stateQ))
    /\ actLog' = Append(actLog, handle_command(state, Head(stateQ)).action)
    /\ UNCHANGED <<lastCmd, prevState, lastAction, filterLog, nCmds, ssidVars, exitVars,
                   retry,
                   data, actHist, cidrCall, SUBNETS,
                   xferCall, routeVars,
                   ebpfCalls,
                   counters>>

NextLog ==
    \/ Startup
    \/ MonitorInit
    \/ MonitorSignal
    \/ NetworkEvent
    \/ ProcessCommandLogged
    \/ RingTick
    \/ IdleTick
    \/ \E i \in 1..MaxTasks : RetryProbe(i)
    \/ \E i \in 1..MaxTasks : RetryFinish(i)
    \/ IpChange

SpecLog == Init /\ [][NextLog]_vars

(***************************************************************************)
(* The ring tick step by step (main.rs 531-559), for what happens when the *)
(* state-command channel fills during the drain.  The tick runs inside the *)
(* select loop, so while pc is "drain" or "send" the loop receives nothing:*)
(* ProcessCommand needs pc = "run".  The classifier keeps submitting       *)
(* records while the loop drains, so rb.next() may return a record at      *)
(* every turn.                                                             *)
(***************************************************************************)
\* ebpf_timer.tick(): poll_events() returns the cached ring buffer
DrainPoll ==
    /\ pc = "run"
    /\ poll_events(EbpfManager)
    /\ pc' = "drain"
    /\ UNCHANGED <<state, stateQ, netQ, ebpfVars, active_routes, retry_in_progress,
                   tasks, wgVars, monPc, was_connected, envVars, lastNetEvent,
                   attachOutcome, smVars>>

\* a drain that takes every record long enough to hold a TrafficEvent
DrainNextOn_at_least(rec) ==
    /\ pc = "drain"
    /\ data' = rec
    /\ pc' = IF rec = NoRecord THEN "run"
             ELSE IF rec >= TrafficEventSize THEN "send" ELSE "drain"
    /\ UNCHANGED <<state, stateQ, netQ, ebpfVars, active_routes, retry_in_progress,
                   tasks, wgVars, monPc, was_connected, envVars, lastNetEvent,
                   attachOutcome, lastCmd, prevState, lastAction, filterLog, nCmds,
                   cmdLog, actLog, ssidVars, exitVars, retry, actHist,
                   cidrCall, SUBNETS,
                   xferCall, routeVars,
                   ebpfCalls,
                   counters>>

\* rb.next() returns rec: None ends the tick, a record whose length is
\* size_of::<TrafficEvent>() is sent on, any other record is skipped
DrainNextOn(rec) ==
    /\ pc = "drain"
    /\ data' = rec
    /\ pc' = IF rec = NoRecord THEN "run"
             ELSE IF rec = TrafficEventSize THEN "send" ELSE "drain"
    /\ UNCHANGED <<state, stateQ, netQ, ebpfVars, active_routes, retry_in_progress,
                   tasks, wgVars, monPc, was_connected, envVars, lastNetEvent,
                   attachOutcome, lastCmd, prevState, lastAction, filterLog, nCmds,
                   cmdLog, actLog, ssidVars, exitVars, retry, actHist,
                   cidrCall, SUBNETS,
                   xferCall, routeVars,
                   ebpfCalls,
                   counters>>

DrainNext == \E rec \in RecordLens \cup {NoRecord} : DrainNextOn(rec)

\* state_tx.send(TrafficDetected).await completes once the channel has room
DrainSend ==
    /\ pc = "send"
    /\ Len(stateQ) < STATE_COMMAND_CHANNEL_SIZE
    /\ stateQ' = Append(stateQ, "TrafficDetected")
    /\ pc' = "drain"
    /\ UNCHANGED <<state, netQ, ebpfVars, active_routes, retry_in_progress,
                   tasks, wgVars, monPc, was_connected, envVars, lastNetEvent,
                   attachOutcome, smVars>>

NextDrain ==
    \/ Startup
    \/ ProcessCommand
    \/ DrainPoll
    \/ DrainNext
    \/ DrainSend

SpecDrain == Init /\ [][NextDrain]_vars

(***************************************************************************)
(* The end of the Wi-Fi monitor task and the supervisor's reaction to it   *)
(* (main.rs 386-400).  monitor() returns Err when the proxy or the first   *)
(* lookup fails (ssid_monitor.rs 197-200), Ok when the signal stream ends  *)
(* (ssid_monitor.rs 229, 256), and a task can panic anywhere.              *)
(***************************************************************************)
MonitorEnded == {"ok", "err", "panicked"}

\* the task ends: how is what the JoinHandle will yield
MonitorExit ==
    /\ pc = "run"
    /\ \E how \in MonitorEnded :
         /\ \/ monPc = "unspawned" /\ how \in {"err", "panicked"}
            \/ monPc = "running" /\ how \in {"ok", "panicked"}
         /\ monPc' = how
    /\ UNCHANGED <<pc, state, stateQ, netQ, ebpfVars, active_routes,
                   retry_in_progress, tasks, wgVars, was_connected, envVars,
                   lastNetEvent, attachOutcome, smVars>>

\* a supervisor that takes only a failed or panicked monitor as fatal
MonitorBranch_err_only ==
    /\ pc = "run"
    /\ monPc \in {"err", "panicked"}
    /\ pc' = "bailed"
    /\ UNCHANGED <<state, stateQ, netQ, ebpfVars, active_routes,
                   retry_in_progress, tasks, wgVars, monPc, was_connected, envVars,
                   lastNetEvent, attachOutcome, smVars>>

\* the select arm on monitor_handle: every outcome ends in bail!
MonitorBranch ==
    /\ pc = "run"
    /\ monPc \in MonitorEnded
    /\ pc' = "bailed"
    /\ UNCHANGED <<state, stateQ, netQ, ebpfVars, active_routes,
                   retry_in_progress, tasks, wgVars, monPc, was_connected, envVars,
                   lastNetEvent, attachOutcome, smVars>>

(***************************************************************************)
(* Admission (ssid_monitor.rs 166-193) on the path from the current SSID   *)
(* to StartMonitoring: the initial check, the monitor and the delivery of  *)
(* its events.  SsidMonitor::new takes any two lists.                      *)
(***************************************************************************)
\* longest SSID list
MaxSsids == 2

Ssids == {"Home", "Work"}

\* an Option<String> is the sequence of at most one string
CurrentSsids == {NoSsid, <<"Home">>, <<"Work">>, <<"Cafe">>}

SsidLists == UNION {[1..n -> Ssids] : n \in 0..MaxSsids}

contains(list, x) == \E k \in 1..Len(list) : list[k] = x

\* is_connected_to_target that looks at the target list before the exclude list
is_connected_to_target_target_first(ok, cur, targets, excludes) ==
    IF ~ok THEN "err"
    ELSE IF cur = NoSsid THEN "false"
    ELSE IF targets = <<>>
         THEN (IF contains(excludes, cur[1]) THEN "false" ELSE "true")
         ELSE (IF contains(targets, cur[1]) THEN "true" ELSE "false")

\* is_connected_to_target(): ok and cur are what current_ssid() returns, Err
\* when ok is false and otherwise Ok(cur); the result is Err, Ok(true) or
\* Ok(false)
is_connected_to_target(ok, cur, targets, excludes) ==
    IF ~ok THEN "err"
    ELSE IF cur = NoSsid THEN "false"
    ELSE IF contains(excludes, cur[1]) THEN "false"
    ELSE IF targets = <<>> THEN "true"
    ELSE IF contains(targets, cur[1]) THEN "true" ELSE "false"

InitAdmit ==
    /\ InitCommon
    /\ InitLoaded
    /\ InitRoutes
    /\ pc = "start"
    /\ nm_connection = FALSE
    /\ ip = NoIP
    /\ tunnelUp \in {"down", "external"}
    /\ current_ssid \in CurrentSsids
    /\ target_ssids \in SsidLists
    /\ exclude_ssids \in SsidLists

\* main.rs 324: the initial check reads a failed lookup as not connected
StartupAdmitOn(ok) ==
    StartupOn(is_connected_to_target(ok, current_ssid, target_ssids, exclude_ssids)
                = "true")

StartupAdmit == \E ok \in BOOLEAN : StartupAdmitOn(ok)

\* ssid_monitor.rs 200: the first lookup of the task; its failure ends the task
MonitorInitAdmitOn(ok) ==
    /\ pc = "run"
    /\ monPc = "unspawned"
    /\ LET c == is_connected_to_target(ok, current_ssid, target_ssids, exclude_ssids)
       IN IF c = "err"
          THEN monPc' = "err" /\ UNCHANGED was_connected
          ELSE monPc' = "running" /\ was_connected' = (c = "true")
    /\ UNCHANGED <<pc, state, stateQ, netQ, ebpfVars, active_routes,
                   retry_in_progress, tasks, wgVars, envVars, lastNetEvent,
                   attachOutcome, smVars>>

MonitorInitAdmit == \E ok \in BOOLEAN : MonitorInitAdmitOn(ok)

MonitorSignalAdmitOn(ok) ==
    MonitorSignalOn(is_connected_to_target(ok, current_ssid, target_ssids, exclude_ssids))

MonitorSignalAdmit == \E ok \in BOOLEAN : MonitorSignalAdmitOn(ok)

\* the host joins another network, or none
SsidChange ==
    /\ pc = "run"
    /\ \E new \in CurrentSsids \ {current_ssid} : current_ssid' = new
    /\ UNCHANGED <<pc, state, stateQ, netQ, ebpfVars, active_routes,
                   retry_in_progress, tasks, wgVars, monPc, was_connected, envVars,
                   lastNetEvent, attachOutcome, lastCmd, prevState, lastAction,
                   filterLog, nCmds, cmdLog, actLog, target_ssids, exclude_ssids,
                   exitVars, retry,
                   data, actHist, cidrCall, SUBNETS,
                   xferCall, routeVars,
                   ebpfCalls,
                   counters>>

NextAdmit ==
    \/ StartupAdmit
    \/ MonitorInitAdmit
    \/ MonitorSignalAdmit
    \/ NetworkEvent
    \/ SsidChange
    \/ MonitorBranch

SpecAdmit == InitAdmit /\ [][NextAdmit]_vars

(***************************************************************************)
(* The ways out of the loop (main.rs 376-400, 595-601): a signal, then the *)
(* shutdown tail, or the end of the monitor task, then the return with an  *)
(* error; either way the locals of async_main are dropped.  pc is          *)
(* "shutdown" after the break, "returned" once graceful_shutdown has       *)
(* returned, "bailed" after bail!, and at the end of the process "exit_ok" *)
(* (status 0), "exit_err" (main returned Err) or "panicked".               *)
(***************************************************************************)
\* write_state: the file exists afterwards (a failed write is only logged and
\* leaves nothing for cleanup to remove)
write_state == TRUE

\* cleanup(): remove_file
cleanup == FALSE

StartupExit ==
    /\ \E initial_connected \in BOOLEAN : StartupCore(initial_connected)
    /\ state_file' = write_state
    /\ UNCHANGED <<lastCmd, prevState, lastAction, filterLog, nCmds, cmdLog, actLog,
                   ssidVars, shutdownDid, retry,
                   data, actHist, cidrCall, SUBNETS,
                   xferCall, routeVars,
                   ebpfCalls,
                   counters>>

ProcessCommandExit ==
    /\ Len(cmdLog) < MaxLog
    /\ Dispatch
    /\ cmdLog' = Append(cmdLog, Head(stateQ))
    /\ actLog' = Append(actLog, handle_command(state, Head(stateQ)).action)
    /\ state_file' = write_state
    /\ UNCHANGED <<lastCmd, prevState, lastAction, filterLog, nCmds, ssidVars,
                   shutdownDid, retry,
                   data, actHist, cidrCall, SUBNETS,
                   xferCall, routeVars,
                   ebpfCalls,
                   counters>>

\* sigterm.recv() or sigint.recv(): both arms break
Signal ==
    /\ pc = "run"
    /\ pc' = "shutdown"
    /\ UNCHANGED <<state, stateQ, netQ, ebpfVars, active_routes, retry_in_progress,
                   tasks, wgVars, monPc, was_connected, envVars, lastNetEvent,
                   attachOutcome, lastCmd, prevState, lastAction, filterLog, nCmds,
                   cmdLog, actLog, ssidVars, state_file, shutdownDid, retry,
                   data, actHist, cidrCall, SUBNETS,
                   xferCall, routeVars,
                   ebpfCalls,
                   counters>>

\* cleanup(), then graceful_shutdown (main.rs 192-217)
ShutdownTail ==
    /\ pc = "shutdown"
    /\ pc' = "returned"
    /\ state_file' = cleanup
    /\ LET e == IF is_attached(EbpfManager) THEN detach(EbpfManager) ELSE EbpfManager
       IN /\ link_id' = e.link_id
          /\ ringbuf' = e.ringbuf
          /\ eventsMap' = e.eventsMap
    /\ IF state = "Active" \/ state = "Activating"
       THEN \E tool \in ToolResults(nm_connection, tunnelUp) :
               tunnelUp' = IF tool = "ok" THEN "down" ELSE tunnelUp
       ELSE UNCHANGED tunnelUp
    /\ shutdownDid' = (IF is_attached(EbpfManager) THEN {"detach"} ELSE {})
                         \cup (IF state = "Active" \/ state = "Activating"
                               THEN {"bring_down"} ELSE {})
    /\ UNCHANGED <<state, stateQ, netQ, active_routes, retry_in_progress,
                   tasks, wgVars, monPc, was_connected, ip, lastNetEvent,
                   attachOutcome, lastCmd, prevState, lastAction, filterLog, nCmds,
                   cmdLog, actLog, ssidVars, retry,
                   data, actHist, cidrCall, SUBNETS,
                   xferCall, routeVars,
                   ebpfCalls,
                   counters>>

\* Drop for RouteManager (route_manager.rs 123-140): with a route left and a
\* runtime handle at hand it calls Handle::block_on, which panics on a thread
\* that is running the runtime; the routes left, and whether it panicked
drop_route_manager(active, in_runtime) ==
    IF active = {} THEN [routes |-> {}, panicked |-> FALSE]
    ELSE IF in_runtime THEN [routes |-> active, panicked |-> TRUE]
    ELSE [routes |-> active, panicked |-> FALSE]

\* async_main returns inside runtime.block_on (main.rs 230): its locals are
\* dropped on the runtime's thread, the RouteManager before the EbpfManager,
\* whose Drop detaches (ebpf_loader.rs 166-170)
DropLocals ==
    /\ pc \in {"bailed", "returned"}
    /\ LET r == drop_route_manager(active_routes, TRUE)
           e == detach(EbpfManager)
       IN /\ active_routes' = r.routes
          /\ link_id' = e.link_id
          /\ ringbuf' = e.ringbuf
          /\ eventsMap' = e.eventsMap
          /\ pc' = IF r.panicked THEN "panicked"
                   ELSE IF pc = "bailed" THEN "exit_err" ELSE "exit_ok"
    /\ UNCHANGED <<state, stateQ, netQ, retry_in_progress,
                   tasks, wgVars, monPc, was_connected, envVars, lastNetEvent,
                   attachOutcome, smVars>>

\* the tasks and the environment matter while the loop runs
NextExit ==
    \/ StartupExit
    \/ ProcessCommandExit
    \/ MonitorExit
    \/ MonitorBranch
    \/ Signal
    \/ ShutdownTail
    \/ DropLocals
    \/ pc = "run" /\ MonitorInit
    \/ pc = "run" /\ MonitorSignal
    \/ NetworkEvent
    \/ RingTick
    \/ IdleTick
    \/ \E i \in 1..MaxTasks : pc = "run" /\ RetryProbe(i)
    \/ \E i \in 1..MaxTasks : pc = "run" /\ RetryFinish(i)
    \/ pc = "run" /\ IpChange

SpecExit == Init /\ [][NextExit]_vars

(***************************************************************************)
(* One attach-retry task step by step (main.rs 118-188): retry.pc is       *)
(* "sleep" in tokio::time::sleep, "probe" before get_interface_ip, "send"  *)
(* in state_tx.send, "clear" before retry_in_progress.store(false) and     *)
(* "done" after the task has ended.  slept and probes count the seconds    *)
(* slept and the probes made; found is whether a probe found an address.   *)
(***************************************************************************)
\* the task as tokio::spawn starts it (main.rs 134-135)
SpawnedRetryTask ==
    [pc |-> "sleep", attempt |-> 1, delay_secs |-> INITIAL_RETRY_DELAY_SECS,
     slept |-> 0, probes |-> 0, found |-> FALSE]

\* tokio::time::sleep(Duration::from_secs(delay_secs)) (main.rs 145)
retry_sleep(t) == [t EXCEPT !.pc = "probe", !.slept = @ + t.delay_secs]

\* a retry task that waits one second longer each time
retry_probe_linear(t, has_ip) ==
    IF has_ip
    THEN [t EXCEPT !.pc = "send", !.probes = @ + 1, !.found = TRUE]
    ELSE [t EXCEPT !.pc = IF t.attempt = MAX_ATTACHMENT_RETRIES THEN "clear" ELSE "sleep",
                   !.attempt = IF t.attempt = MAX_ATTACHMENT_RETRIES THEN @ ELSE @ + 1,
                   !.probes = @ + 1,
                   !.delay_secs = @ + 1]

\* the probe of one attempt (main.rs 148-176): has_ip is whether
\* get_interface_ip returned Ok(Some(_)); otherwise delay_secs doubles and the
\* loop goes on, or ends after attempt MAX_ATTACHMENT_RETRIES
retry_probe(t, has_ip) ==
    IF has_ip
    THEN [t EXCEPT !.pc = "send", !.probes = @ + 1, !.found = TRUE]
    ELSE [t EXCEPT !.pc = IF t.attempt = MAX_ATTACHMENT_RETRIES THEN "clear" ELSE "sleep",
                   !.attempt = IF t.attempt = MAX_ATTACHMENT_RETRIES THEN @ ELSE @ + 1,
                   !.probes = @ + 1,
                   !.delay_secs = @ * 2]

InitRetry ==
    /\ InitCommon
    /\ InitLoaded
    /\ InitRoutes
    /\ InitSsid
    /\ pc = "run"
    /\ nm_connection = FALSE
    /\ ip \in HostIPs
    /\ tunnelUp = "down"

\* spawn_attachment_retry_task: nothing is spawned while the guard is set
RetrySpawn ==
    /\ retry.pc \in {"none", "done"}
    /\ IF retry_in_progress
       THEN UNCHANGED <<retry_in_progress, retry>>
       ELSE /\ retry_in_progress' = TRUE
            /\ retry' = SpawnedRetryTask
    /\ UNCHANGED <<pc, state, stateQ, netQ, ebpfVars, active_routes, tasks, wgVars,
                   monPc, was_connected, envVars, lastNetEvent, attachOutcome,
                   lastCmd, prevState, lastAction, filterLog, nCmds, cmdLog, actLog,
                   ssidVars, exitVars,
                   data, actHist, cidrCall, SUBNETS,
                   xferCall, routeVars,
                   ebpfCalls,
                   counters>>

RetrySleep ==
    /\ retry.pc = "sleep"
    /\ retry' = retry_sleep(retry)
    /\ UNCHANGED <<pc, state, stateQ, netQ, ebpfVars, active_routes, retry_in_progress,
                   tasks, wgVars, monPc, was_connected, envVars, lastNetEvent,
                   attachOutcome, lastCmd, prevState, lastAction, filterLog, nCmds,
                   cmdLog, actLog, ssidVars, exitVars,
                   data, actHist, cidrCall, SUBNETS,
                   xferCall, routeVars,
                   ebpfCalls,
                   counters>>

\* get_interface_ip: Ok(Some(_)) needs an address; the probe itself can fail
RetryProbeOn(probeOk) ==
    /\ retry.pc = "probe"
    /\ retry' = retry_probe(retry, probeOk /\ ip # NoIP)
    /\ UNCHANGED <<pc, state, stateQ, netQ, ebpfVars, active_routes, retry_in_progress,
                   tasks, wgVars, monPc, was_connected, envVars, lastNetEvent,
                   attachOutcome, lastCmd, prevState, lastAction, filterLog, nCmds,
                   cmdLog, actLog, ssidVars, exitVars,
                   data, actHist, cidrCall, SUBNETS,
                   xferCall, routeVars,
                   ebpfCalls,
                   counters>>

RetryProbeStep == \E probeOk \in BOOLEAN : RetryProbeOn(probeOk)

\* state_tx.send(RetryEbpfAttachment).await (main.rs 155)
RetrySend ==
    /\ retry.pc = "send"
    /\ Len(stateQ) < MaxPending
    /\ stateQ' = Append(stateQ, "RetryEbpfAttachment")
    /\ retry' = [retry EXCEPT !.pc = "clear"]
    /\ UNCHANGED <<pc, state, netQ, ebpfVars, active_routes, retry_in_progress,
                   tasks, wgVars, monPc, was_connected, envVars, lastNetEvent,
                   attachOutcome, lastCmd, prevState, lastAction, filterLog, nCmds,
                   cmdLog, actLog, ssidVars, exitVars,
                   data, actHist, cidrCall, SUBNETS,
                   xferCall, routeVars,
                   ebpfCalls,
                   counters>>

\* retry_in_progress.store(false) (main.rs 159, 186) and the task ends
RetryClear ==
    /\ retry.pc = "clear"
    /\ retry_in_progress' = FALSE
    /\ retry' = [retry EXCEPT !.pc = "done"]
    /\ UNCHANGED <<pc, state, stateQ, netQ, ebpfVars, active_routes,
                   tasks, wgVars, monPc, was_connected, envVars, lastNetEvent,
                   attachOutcome, lastCmd, prevState, lastAction, filterLog, nCmds,
                   cmdLog, actLog, ssidVars, exitVars,
                   data, actHist, cidrCall, SUBNETS,
                   xferCall, routeVars,
                   ebpfCalls,
                   counters>>

NextRetry ==
    \/ RetrySpawn
    \/ RetrySleep
    \/ RetryProbeStep
    \/ RetrySend
    \/ RetryClear
    \/ IpChange

\* the runtime polls a spawned task whenever it can make progress: a timer
\* that fires, a probe that returns, a channel with room
RetryFairness ==
    /\ WF_vars(RetrySleep)
    /\ WF_vars(RetryProbeStep)
    /\ WF_vars(RetrySend)
    /\ WF_vars(RetryClear)

SpecRetry == InitRetry /\ [][NextRetry]_vars /\ RetryFairness

(***************************************************************************)
(* WgController's activity tracking by itself (wg_controller.rs 244-276),  *)
(* with a clock: actHist.now is Instant::now(), actHist.stamp the Instant  *)
(* held by last_activity, and the rest of actHist the last call made: its  *)
(* input, its return value, the time it was made at and the fields before. *)
(***************************************************************************)
\* the largest clock value
MaxNow == 3

\* summed (rx, tx) pairs the netlink query can return, or its failure
ActivityStats == {<<0, 0>>, <<0, 1>>, <<1, 0>>, <<1, 1>>, StatsErr}

InitActivity ==
    /\ InitCommon
    /\ InitLoaded
    /\ InitRoutes
    /\ InitSsid
    /\ pc = "run"
    /\ nm_connection = FALSE
    /\ ip = NoIP
    /\ tunnelUp = "down"

\* what a call records of the fields it found
Called(name, stats) ==
    [actHist EXCEPT !.call = name, !.stats = stats, !.at = actHist.now,
                    !.pre_bytes = last_bytes, !.pre_activity = last_activity,
                    !.pre_stamp = actHist.stamp, !.ret = "none", !.dur = -1]

CheckActivityOn(stats) ==
    LET c == check_activity(last_bytes, last_activity, stats)
    IN /\ last_bytes' = c.last_bytes
       /\ last_activity' = c.last_activity
       /\ actHist' = [Called("check_activity", stats) EXCEPT
                        !.stamp = IF c.has_activity THEN actHist.now ELSE @,
                        !.ret = IF ~c.ok THEN "err"
                                ELSE IF c.has_activity THEN "true" ELSE "false"]
       /\ UNCHANGED <<pc, state, stateQ, netQ, ebpfVars, active_routes, retry_in_progress,
                      tasks, nm_connection, monPc, was_connected, envVars, lastNetEvent,
                      attachOutcome, lastCmd, prevState, lastAction, filterLog, nCmds,
                      cmdLog, actLog, ssidVars, exitVars, retry, data,
                      cidrCall, SUBNETS,
                   xferCall, routeVars,
                   ebpfCalls,
                   counters>>

CheckActivity == \E stats \in ActivityStats : CheckActivityOn(stats)

ResetActivity ==
    /\ last_bytes' = reset_activity.last_bytes
    /\ last_activity' = reset_activity.last_activity
    /\ actHist' = [Called("reset_activity", <<>>) EXCEPT !.stamp = actHist.now]
    /\ UNCHANGED <<pc, state, stateQ, netQ, ebpfVars, active_routes, retry_in_progress,
                   tasks, nm_connection, monPc, was_connected, envVars, lastNetEvent,
                   attachOutcome, lastCmd, prevState, lastAction, filterLog, nCmds,
                   cmdLog, actLog, ssidVars, exitVars, retry, data,
                      cidrCall, SUBNETS,
                   xferCall, routeVars,
                   ebpfCalls,
                   counters>>

IdleDuration ==
    /\ actHist' = [Called("idle_duration", <<>>) EXCEPT
                     !.dur = idle_duration(last_activity, actHist.now - actHist.stamp)]
    /\ UNCHANGED <<pc, state, stateQ, netQ, ebpfVars, active_routes, retry_in_progress,
                   tasks, wgVars, monPc, was_connected, envVars, lastNetEvent,
                   attachOutcome, lastCmd, prevState, lastAction, filterLog, nCmds,
                   cmdLog, actLog, ssidVars, exitVars, retry, data,
                      cidrCall, SUBNETS,
                   xferCall, routeVars,
                   ebpfCalls,
                   counters>>

\* time passes
ClockTick ==
    /\ actHist.now < MaxNow
    /\ actHist' = [actHist EXCEPT !.now = @ + 1]
    /\ UNCHANGED <<pc, state, stateQ, netQ, ebpfVars, active_routes, retry_in_progress,
                   tasks, wgVars, monPc, was_connected, envVars, lastNetEvent,
                   attachOutcome, lastCmd, prevState, lastAction, filterLog, nCmds,
                   cmdLog, actLog, ssidVars, exitVars, retry, data,
                      cidrCall, SUBNETS,
                   xferCall, routeVars,
                   ebpfCalls,
                   counters>>

NextActivity ==
    \/ CheckActivity
    \/ ResetActivity
    \/ IdleDuration
    \/ ClockTick

SpecActivity == InitActivity /\ [][NextActivity]_vars

(***************************************************************************)
(* parse_cidr and ip_in_subnets by themselves (config.rs 85-124): a        *)
(* behaviour is one call, with its arguments and what it returned.         *)
(***************************************************************************)
\* addresses the calls are made with
CidrAddrs == {<<192, 168, 1, 100>>, <<10, 0, 0, 0>>, <<172, 31, 200, 7>>,
              <<0, 0, 0, 0>>, <<255, 255, 255, 255>>}

\* strings parse_cidr rejects
BadCidrTexts ==
    LET a == <<Num(10), Dot, Num(0), Dot, Num(0), Dot, Num(0)>>
    IN { <<>>,
         a,
         a \o <<Slash>>,
         a \o <<Slash, Num(24), Slash, Num(8)>>,
         a \o <<Slash, Num(33)>>,
         a \o <<Slash, Num(255)>>,
         a \o <<Slash, Num(256)>>,
         a \o <<Slash, Junk>>,
         <<Slash, Num(24)>>,
         <<Num(10), Dot, Num(0), Dot, Num(0), Slash, Num(24)>>,
         <<Num(10), Dot, Num(0), Dot, Num(0), Dot, Num(256), Slash, Num(24)>>,
         <<Num(10), Dot, Num(0), Dot, Junk, Dot, Num(0), Slash, Num(24)>>,
         a \o <<Dot, Num(0), Slash, Num(24)>> }

CidrTexts == {CidrText(addr, p) : addr \in CidrAddrs, p \in 0..32} \cup BadCidrTexts

InitCidr ==
    /\ InitCommon
    /\ InitLoaded
    /\ InitRoutes
    /\ InitSsid
    /\ pc = "run"
    /\ nm_connection = FALSE
    /\ ip = NoIP
    /\ tunnelUp = "down"

ParseCidrOn(text) ==
    /\ cidrCall.fn = "none"
    /\ cidrCall' = [NoCidrCall EXCEPT !.fn = "parse_cidr", !.text = text,
                                      !.ok = parse_cidr_str(text).ok,
                                      !.network = parse_cidr_str(text).network,
                                      !.mask = parse_cidr_str(text).mask]
    /\ UNCHANGED <<pc, state, stateQ, netQ, ebpfVars, active_routes, retry_in_progress,
                   tasks, wgVars, monPc, was_connected, envVars, lastNetEvent,
                   attachOutcome, lastCmd, prevState, lastAction, filterLog, nCmds,
                   cmdLog, actLog, ssidVars, exitVars, retry, data, actHist, SUBNETS,
                   xferCall, routeVars,
                   ebpfCalls,
                   counters>>

ParseCidr == \E text \in CidrTexts : ParseCidrOn(text)

\* the longest subnet list a call is made with
MaxSubnets == 2

\* subnets the lists are made of: nested ones, one written with host bits, and
\* the one that holds every address
SubnetInputs == { [addr |-> <<192, 168, 1, 0>>, prefix |-> 24],
                  [addr |-> <<192, 168, 0, 0>>, prefix |-> 16],
                  [addr |-> <<192, 168, 1, 100>>, prefix |-> 25],
                  [addr |-> <<10, 0, 0, 0>>, prefix |-> 8],
                  [addr |-> <<0, 0, 0, 0>>, prefix |-> 0] }

SubnetLists == UNION {[1..n -> SubnetInputs] : n \in 0..MaxSubnets}

\* addresses looked up: network and broadcast addresses, hosts inside, and
\* addresses one prefix bit away
LookupAddrs == {<<192, 168, 1, 0>>, <<192, 168, 1, 255>>, <<192, 168, 1, 77>>,
                <<192, 168, 1, 128>>, <<192, 168, 0, 255>>, <<192, 169, 1, 1>>,
                <<10, 255, 255, 255>>, <<11, 0, 0, 0>>, <<0, 0, 0, 0>>,
                <<255, 255, 255, 255>>}

IpInSubnetsOn(addr, subnet_cidrs) ==
    /\ cidrCall.fn = "none"
    /\ cidrCall' = [NoCidrCall EXCEPT !.fn = "ip_in_subnets", !.ip = addr,
                                      !.subnets = subnet_cidrs, !.ok = TRUE,
                                      !.contained = ip_in_subnets(addr, subnet_cidrs)]
    /\ UNCHANGED <<pc, state, stateQ, netQ, ebpfVars, active_routes, retry_in_progress,
                   tasks, wgVars, monPc, was_connected, envVars, lastNetEvent,
                   attachOutcome, lastCmd, prevState, lastAction, filterLog, nCmds,
                   cmdLog, actLog, ssidVars, exitVars, retry, data, actHist, SUBNETS,
                   xferCall, routeVars,
                   ebpfCalls,
                   counters>>

IpInSubnets ==
    \E addr \in LookupAddrs, subnet_cidrs \in SubnetLists : IpInSubnetsOn(addr, subnet_cidrs)

NextCidr ==
    \/ ParseCidr
    \/ IpInSubnets

SpecCidr == InitCidr /\ [][NextCidr]_vars

(***************************************************************************)
(* The daemon from EbpfManager::load on (main.rs 302), for subnet lists of *)
(* every length the array can hold and one that is longer.  pc is "load"   *)
(* before load is called; cidrCall.subnets is the list load was given.     *)
(***************************************************************************)
\* 10.i.0.77 / (i + 7): seventeen subnets, written with host bits
ManySubnets == [i \in 1..(MAX_SUBNETS + 1) |-> [addr |-> <<10, i, 0, 77>>, prefix |-> i + 7]]

\* config.subnets.ranges
LoadInputs ==
    {SubSeq(ManySubnets, 1, n) : n \in {1, 2, MAX_SUBNETS - 1, MAX_SUBNETS, MAX_SUBNETS + 1}}
        \cup {ranges, << [addr |-> <<0, 0, 0, 0>>, prefix |-> 0] >>}

InitLoad ==
    /\ InitCommon
    /\ InitSsid
    /\ SUBNETS = ZeroedMap
    /\ InitRoutes
    /\ pc = "load"
    /\ nm_connection \in BOOLEAN
    /\ ip \in HostIPs
    /\ tunnelUp \in {"down", "external"}

\* EbpfManager::load(&monitor_iface, &config.subnets.ranges)?: an error ends
\* the daemon and the map goes with the Bpf object
LoadOn(subnets, loadOk) ==
    /\ pc = "load"
    /\ pc' = IF loadOk THEN "start" ELSE "exit_err"
    /\ SUBNETS' = IF loadOk THEN load(SUBNETS, subnets) ELSE SUBNETS
    /\ cidrCall' = [NoCidrCall EXCEPT !.fn = "load", !.subnets = subnets, !.ok = loadOk]
    /\ UNCHANGED <<state, stateQ, netQ, ebpfVars, active_routes, retry_in_progress,
                   tasks, wgVars, monPc, was_connected, envVars, lastNetEvent,
                   attachOutcome, lastCmd, prevState, lastAction, filterLog, nCmds,
                   cmdLog, actLog, ssidVars, exitVars, retry, data, actHist,
                   xferCall, routeVars,
                   ebpfCalls,
                   counters>>

Load == \E subnets \in LoadInputs, loadOk \in BOOLEAN : LoadOn(subnets, loadOk)

\* the monitor task is spawned after load and the initial check (main.rs 354)
NextLoad ==
    \/ Load
    \/ Startup
    \/ pc = "run" /\ MonitorInit
    \/ pc = "run" /\ MonitorSignal
    \/ pc = "run" /\ NetworkEvent
    \/ ProcessCommandLogged
    \/ RingTick

SpecLoad == InitLoad /\ [][NextLoad]_vars

(***************************************************************************)
(* parse_wg_transfer_output (wg_controller.rs 192-207).  A u64 is written  *)
(* as its four 16-bit limbs, most significant first; a decimal field of    *)
(* the text as five limbs, so that it can exceed u64::MAX.  The output is  *)
(* the sequence of its lines and a line the sequence of its tab-separated  *)
(* fields.                                                                 *)
(***************************************************************************)
\* 2^16
Limb == 65536

\* a field that is a decimal number, and fields that are not
Dec(v) == [k |-> "dec", v |-> v]
Key == [k |-> "key", v |-> <<>>]
Empty == [k |-> "empty", v |-> <<>>]

\* field.parse::<u64>(): the four limbs, or <<>> for Err; a number above
\* u64::MAX does not parse
parse_u64(field) ==
    IF field.k = "dec" /\ field.v[1] = 0 THEN SubSeq(field.v, 2, 5) ELSE <<>>

\* x + y on u64: the wrapped sum and whether it overflowed
Add64(x, y) ==
    LET s4 == x[4] + y[4]
        s3 == x[3] + y[3] + (s4 \div Limb)
        s2 == x[2] + y[2] + (s3 \div Limb)
        s1 == x[1] + y[1] + (s2 \div Limb)
    IN [v |-> <<s1 % Limb, s2 % Limb, s3 % Limb, s4 % Limb>>, overflow |-> s1 >= Limb]

\* the loop body for one line (wg_controller.rs 196-204): acc is the totals so
\* far; `+=` panics on overflow when the build checks overflow (the dev
\* profile) and wraps when it does not (the release profile)
transfer_line(acc, line, overflow_checks) ==
    IF acc.panicked THEN acc
    ELSE IF Len(line) < 3 THEN acc
    ELSE LET rx == parse_u64(line[2])
             tx == parse_u64(line[3])
         IN IF rx = <<>> \/ tx = <<>> THEN acc
            ELSE LET r == Add64(acc.rx, rx)
                     t == Add64(acc.tx, tx)
                 IN IF overflow_checks /\ r.overflow THEN [acc EXCEPT !.panicked = TRUE]
                    ELSE IF overflow_checks /\ t.overflow
                         THEN [acc EXCEPT !.panicked = TRUE, !.rx = r.v]
                    ELSE [acc EXCEPT !.rx = r.v, !.tx = t.v]

RECURSIVE parse_wg_transfer_output(_, _)
\* parse_wg_transfer_output(output): the totals after the last line
parse_wg_transfer_output(output, overflow_checks) ==
    IF output = <<>>
    THEN [panicked |-> FALSE, rx |-> <<0, 0, 0, 0>>, tx |-> <<0, 0, 0, 0>>]
    ELSE transfer_line(parse_wg_transfer_output(SubSeq(output, 1, Len(output) - 1),
                                                overflow_checks),
                       output[Len(output)], overflow_checks)

\* the most lines an output has
MaxLines == 3

\* 500, 1000, 2^63 and u64::MAX, and 2^64, which is no u64
TransferLines ==
    LET n500 == Dec(<<0, 0, 0, 0, 500>>)
        n1000 == Dec(<<0, 0, 0, 0, 1000>>)
        half == Dec(<<0, 32768, 0, 0, 0>>)
        max == Dec(<<0, 65535, 65535, 65535, 65535>>)
        big == Dec(<<1, 0, 0, 0, 0>>)
    IN { <<Key, n500, n1000>>,
         <<Key, n1000, n500, n500>>,
         <<Key, half, n500>>,
         <<Key, max, max>>,
         <<Key, n500>>,
         <<Empty>>,
         <<Key, Key, n1000>>,
         <<Key, n500, Empty>>,
         <<Key, big, n500>>,
         <<n500, n500, n500>> }

TransferOutputs == UNION {[1..n -> TransferLines] : n \in 0..MaxLines}

InitTransfer ==
    /\ InitCommon
    /\ InitLoaded
    /\ InitRoutes
    /\ InitSsid
    /\ pc = "run"
    /\ nm_connection = FALSE
    /\ ip = NoIP
    /\ tunnelUp = "down"

ParseTransferOn(output, overflow_checks) ==
    LET r == parse_wg_transfer_output(output, overflow_checks)
    IN /\ xferCall.fn = "none"
       /\ xferCall' = [fn |-> "parse_wg_transfer_output", output |-> output,
                       panicked |-> r.panicked, rx |-> r.rx, tx |-> r.tx]
       /\ UNCHANGED <<pc, state, stateQ, netQ, ebpfVars, active_routes, retry_in_progress,
                      tasks, wgVars, monPc, was_connected, envVars, lastNetEvent,
                      attachOutcome, lastCmd, prevState, lastAction, filterLog, nCmds,
                      cmdLog, actLog, ssidVars, exitVars, retry, data, actHist, cidrCall,
                      SUBNETS,
                   gateway,
                   rtable,
                   hostGateway,
                   routeHist,
                   ebpfCalls,
                   counters>>

ParseTransfer ==
    \E output \in TransferOutputs, overflow_checks \in BOOLEAN :
        ParseTransferOn(output, overflow_checks)

NextTransfer ==
    \/ ParseTransfer

SpecTransfer == InitTransfer /\ [][NextTransfer]_vars

(***************************************************************************)
(* RouteManager by itself (route_manager.rs 28-116), with the `ip`         *)
(* commands it runs and the kernel's routing table they act on.  A text is *)
(* the sequence of its characters, with the words "via", "dev" and the     *)
(* interface names as one piece each.  rtable holds the routes as          *)
(* [dst, via, dev]; routeHist.cmds are the commands of the last call.      *)
(***************************************************************************)
\* RouteManager.interface
interface == "wlan0"

RECURSIVE Digits(_)
\* a number written in decimal
Digits(n) ==
    IF n < 10 THEN <<(<<"0", "1", "2", "3", "4", "5", "6", "7", "8", "9">>)[n + 1]>>
    ELSE Digits(n \div 10) \o Digits(n % 10)

\* Ipv4Addr::to_string
to_string(addr) ==
    Digits(addr[1]) \o <<".">> \o Digits(addr[2]) \o <<".">> \o Digits(addr[3])
        \o <<".">> \o Digits(addr[4])

\* the subnet as the configuration writes it
CidrStr(cidr) == to_string(cidr.addr) \o <<"/">> \o Digits(cidr.prefix)

\* a line of `ip route show`
RouteLine(r) ==
    CidrStr(r.dst) \o <<" ", "via", " ">> \o to_string(r.via) \o <<" ", "dev", " ", r.dev>>

\* str::contains
str_contains(text, pat) ==
    \E i \in 0..(Len(text) - Len(pat)) : SubSeq(text, i + 1, i + Len(pat)) = pat

\* the output of `ip route show <subnet>`: the lines of the routes to it
route_show(table, subnet) == {RouteLine(r) : r \in {x \in table : x.dst = subnet}}

\* route_exists (route_manager.rs 100-110): the output contains the gateway's
\* text and contains the interface's name
route_exists(table, subnet, gw, iface) ==
    /\ \E line \in route_show(table, subnet) : str_contains(line, to_string(gw))
    /\ \E line \in route_show(table, subnet) : str_contains(line, <<iface>>)

\* what running `ip route add` can give: it cannot be started, it is run and
\* the kernel decides, or it is run and fails for a reason of its own
AddOutcomes == {"spawn_err", "run", "fail"}

RECURSIVE add_routes_loop(_, _, _, _)
\* the for loop of add_routes (route_manager.rs 55-83) over the subnets left:
\* acc is the tracked set, the kernel's table, the commands run so far and
\* whether no `?` has returned yet; the kernel refuses a second route to a
\* destination it has a route to
add_routes_loop(acc, subnets, gw, outcomes) ==
    IF subnets = <<>> \/ ~acc.ok THEN acc
    ELSE IF Head(subnets) \in acc.active
    THEN add_routes_loop(acc, Tail(subnets), gw, Tail(outcomes))
    ELSE LET subnet == Head(subnets)
             ran == [acc EXCEPT !.cmds = @ \cup {[op |-> "add", subnet |-> subnet, via |-> gw]}]
             success == /\ Head(outcomes) = "run"
                        /\ \A r \in acc.table : r.dst # subnet
             table == IF success
                      THEN acc.table \cup {[dst |-> subnet, via |-> gw, dev |-> interface]}
                      ELSE acc.table
         IN IF Head(outcomes) = "spawn_err" THEN [acc EXCEPT !.ok = FALSE]
            ELSE IF success \/ route_exists(table, subnet, gw, interface)
            THEN add_routes_loop([ran EXCEPT !.active = @ \cup {subnet}, !.table = table],
                                 Tail(subnets), gw, Tail(outcomes))
            ELSE add_routes_loop(ran, Tail(subnets), gw, Tail(outcomes))

\* routes other programs can have put in the table
ForeignRoutes ==
    { [dst |-> ranges[1], via |-> GatewayA100, dev |-> "wlan0"],
      [dst |-> ranges[2], via |-> GatewayA, dev |-> "eth0"] }

InitRoute ==
    /\ InitCommon
    /\ InitLoaded
    /\ InitSsid
    /\ pc = "run"
    /\ nm_connection = FALSE
    /\ ip = IpOutside
    /\ tunnelUp = "down"
    /\ gateway = NoGateway
    /\ rtable \in SUBSET ForeignRoutes
    /\ hostGateway \in {GatewayA, GatewayB}
    /\ routeHist = NoRouteCall

\* add_routes(&config.subnets.ranges): detectOk is whether detect_gateway
\* finds the gateway, outcomes what each `ip route add` gives
AddRoutesOn(detectOk, outcomes) ==
    IF gateway = NoGateway /\ ~detectOk
    THEN /\ routeHist' = [call |-> "add_routes", cmds |-> {}, pre_active |-> active_routes,
                          ok |-> FALSE]
         /\ UNCHANGED <<gateway, rtable, hostGateway, active_routes,
                        pc, state, stateQ, netQ, ebpfVars, retry_in_progress,
                        tasks, wgVars, monPc, was_connected, envVars, lastNetEvent,
                        attachOutcome, lastCmd, prevState, lastAction, filterLog, nCmds,
                        cmdLog, actLog, ssidVars, exitVars, retry, data, actHist, cidrCall,
                        SUBNETS, xferCall,
                   ebpfCalls,
                   counters>>
    ELSE LET gw == IF gateway = NoGateway THEN hostGateway ELSE gateway
             r == add_routes_loop([active |-> active_routes, table |-> rtable, cmds |-> {},
                                   ok |-> TRUE], ranges, gw, outcomes)
         IN /\ gateway' = gw
            /\ active_routes' = add_routes(active_routes, RangeSet, r.active)
            /\ rtable' = r.table
            /\ routeHist' = [call |-> "add_routes", cmds |-> r.cmds,
                             pre_active |-> active_routes, ok |-> r.ok]
            /\ UNCHANGED <<hostGateway,
                           pc, state, stateQ, netQ, ebpfVars, retry_in_progress,
                           tasks, wgVars, monPc, was_connected, envVars, lastNetEvent,
                           attachOutcome, lastCmd, prevState, lastAction, filterLog, nCmds,
                           cmdLog, actLog, ssidVars, exitVars, retry, data, actHist,
                           cidrCall, SUBNETS, xferCall,
                   ebpfCalls,
                   counters>>

AddRoutes ==
    \E detectOk \in BOOLEAN, outcomes \in [1..Len(ranges) -> AddOutcomes] :
        AddRoutesOn(detectOk, outcomes)

\* remove_routes(): `ip route del <subnet>` for every tracked subnet; deleted
\* are the routes whose delete succeeded, one per subnet
RemoveRoutesOn(deleted) ==
    /\ \A r \in deleted : r.dst \in active_routes
    /\ \A r1, r2 \in deleted : r1.dst = r2.dst => r1 = r2
    /\ active_routes' = remove_routes(active_routes)
    /\ rtable' = rtable \ deleted
    /\ routeHist' = [call |-> "remove_routes",
                     cmds |-> {[op |-> "del", subnet |-> subnet, via |-> NoGateway] :
                                  subnet \in active_routes},
                     pre_active |-> active_routes, ok |-> TRUE]
    /\ UNCHANGED <<gateway, hostGateway,
                   pc, state, stateQ, netQ, ebpfVars, retry_in_progress,
                   tasks, wgVars, monPc, was_connected, envVars, lastNetEvent,
                   attachOutcome, lastCmd, prevState, lastAction, filterLog, nCmds,
                   cmdLog, actLog, ssidVars, exitVars, retry, data, actHist, cidrCall,
                   SUBNETS, xferCall,
                   ebpfCalls,
                   counters>>

RemoveRoutes == \E deleted \in SUBSET rtable : RemoveRoutesOn(deleted)

NextRoute ==
    \/ AddRoutes
    \/ RemoveRoutes

SpecRoute == InitRoute /\ [][NextRoute]_vars

(***************************************************************************)
(* The daemon from its initial admission check on, with the Wi-Fi network  *)
(* the host is on, the monitor task's lookups of it and a record of the    *)
(* commands the supervisor receives (main.rs 323-351, 403-528).            *)
(***************************************************************************)
\* the lists of the configuration: any network or "Home", none or "Work" excluded
InitStart ==
    /\ InitCommon
    /\ InitLoaded
    /\ InitRoutes
    /\ pc = "start"
    /\ nm_connection = FALSE
    /\ ip = IpOutside
    /\ tunnelUp \in {"down", "external"}
    /\ current_ssid \in CurrentSsids
    /\ target_ssids \in {<<>>, <<"Home">>}
    /\ exclude_ssids \in {<<>>, <<"Work">>}

NextStart ==
    \/ StartupAdmit
    \/ MonitorInitAdmit
    \/ MonitorSignalAdmit
    \/ NetworkEvent
    \/ ProcessCommandLogged
    \/ RingTick
    \/ SsidChange

SpecStart == InitStart /\ [][NextStart]_vars

\* the supervisor's loop and the spawned monitor task are scheduled by the
\* runtime; NetworkManager signals every change of the primary connection,
\* and the lookup a signal triggers eventually succeeds
StartFairness ==
    /\ WF_vars(StartupAdmit)
    /\ WF_vars(MonitorInitAdmit)
    /\ WF_vars(MonitorSignalAdmitOn(TRUE))
    /\ WF_vars(NetworkEvent)
    /\ WF_vars(ProcessCommandLogged)

SpecStartFair == SpecStart /\ StartFairness

(***************************************************************************)
(* EbpfManager on its own: any sequence of attach() and detach() calls on  *)
(* a freshly loaded manager (ebpf_loader.rs 92-163).                       *)
(***************************************************************************)
\* the number of calls followed
MaxCalls == 4

InitEbpf ==
    /\ InitCommon
    /\ InitLoaded
    /\ InitRoutes
    /\ InitSsid
    /\ pc = "run"
    /\ nm_connection = FALSE
    /\ ip = IpOutside
    /\ tunnelUp = "down"

AttachOn(tcOk) ==
    /\ Len(ebpfCalls) < MaxCalls
    /\ LET r == attach(EbpfManager, tcOk)
       IN /\ link_id' = r.e.link_id
          /\ ringbuf' = r.e.ringbuf
          /\ eventsMap' = r.e.eventsMap
          /\ ebpfCalls' = Append(ebpfCalls, [fn |-> "attach", ok |-> r.ok])
    /\ UNCHANGED <<pc, state, stateQ, netQ, active_routes, retry_in_progress,
                   tasks, wgVars, monPc, was_connected, envVars, lastNetEvent,
                   attachOutcome, lastCmd, prevState, lastAction, filterLog, nCmds,
                   cmdLog, actLog, ssidVars, exitVars, retry, data, actHist, cidrCall,
                   SUBNETS, xferCall, routeVars,
                   counters>>

Attach == \E tcOk \in BOOLEAN : AttachOn(tcOk)

DetachOn(detachOk) ==
    /\ Len(ebpfCalls) < MaxCalls
    /\ LET r == detach_result(EbpfManager, detachOk)
       IN /\ link_id' = r.e.link_id
          /\ ringbuf' = r.e.ringbuf
          /\ eventsMap' = r.e.eventsMap
          /\ ebpfCalls' = Append(ebpfCalls, [fn |-> "detach", ok |-> r.ok])
    /\ UNCHANGED <<pc, state, stateQ, netQ, active_routes, retry_in_progress,
                   tasks, wgVars, monPc, was_connected, envVars, lastNetEvent,
                   attachOutcome, lastCmd, prevState, lastAction, filterLog, nCmds,
                   cmdLog, actLog, ssidVars, exitVars, retry, data, actHist, cidrCall,
                   SUBNETS, xferCall, routeVars,
                   counters>>

Detach == \E detachOk \in BOOLEAN : DetachOn(detachOk)

NextEbpf ==
    \/ Attach
    \/ Detach

SpecEbpf == InitEbpf /\ [][NextEbpf]_vars

(***************************************************************************)
(* The kernel classifier on the array load wrote: load is called with a    *)
(* subnet list and the classifier then sees a packet's destination         *)
(* (ebpf_loader.rs 44-68, wg-ondemand-ebpf main.rs 58-63, 105-128).        *)
(***************************************************************************)
\* the subnet lists of SpecCidr, and the single-host subnet of the broadcast
\* address
MatchLists ==
    UNION {[1..n -> SubnetInputs \cup {[addr |-> <<255, 255, 255, 255>>, prefix |-> 32]}] :
              n \in 0..MaxSubnets}

InitMatch ==
    /\ InitCommon
    /\ InitSsid
    /\ SUBNETS = ZeroedMap
    /\ InitRoutes
    /\ pc = "load"
    /\ nm_connection = FALSE
    /\ ip = IpOutside
    /\ tunnelUp = "down"

LoadMatch == \E subnets \in MatchLists : LoadOn(subnets, TRUE)

\* try_wg_ondemand_tc on a packet to dest_ip, up to the subnet test
ClassifyOn(dest_ip) ==
    /\ cidrCall.fn = "load"
    /\ cidrCall' = [cidrCall EXCEPT !.fn = "is_target_subnet", !.ip = dest_ip,
                                    !.contained = is_target_subnet(dest_ip, SUBNETS)]
    /\ UNCHANGED <<pc, state, stateQ, netQ, ebpfVars, active_routes, retry_in_progress,
                   tasks, wgVars, monPc, was_connected, envVars, lastNetEvent,
                   attachOutcome, lastCmd, prevState, lastAction, filterLog, nCmds,
                   cmdLog, actLog, ssidVars, exitVars, retry, data, actHist, SUBNETS,
                   xferCall, routeVars, ebpfCalls,
                   counters>>

Classify == \E dest_ip \in LookupAddrs : ClassifyOn(dest_ip)

NextMatch ==
    \/ LoadMatch
    \/ Classify

SpecMatch == InitMatch /\ [][NextMatch]_vars

(***************************************************************************)
(* The supervisor with the tunnel's transfer counters: they only grow, and *)
(* the idle tick reads them or fails to (main.rs 562-591,                  *)
(* wg_controller.rs 209-276).                                              *)
(***************************************************************************)
InitIdle ==
    /\ InitCommon
    /\ InitLoaded
    /\ InitRoutes
    /\ InitSsid
    /\ pc = "start"
    /\ nm_connection = FALSE
    /\ ip = IpOutside
    /\ tunnelUp \in {"down", "external"}

\* bytes pass through the tunnel while its interface exists
Transfer ==
    /\ is_up(tunnelUp)
    /\ \E s \in StatsInputs :
         /\ s # counters
         /\ s[1] >= counters[1]
         /\ s[2] >= counters[2]
         /\ counters' = s
    /\ UNCHANGED <<pc, state, stateQ, netQ, ebpfVars, active_routes, retry_in_progress,
                   tasks, wgVars, monPc, was_connected, envVars, lastNetEvent,
                   attachOutcome, lastCmd, prevState, lastAction, filterLog, nCmds,
                   cmdLog, actLog, ssidVars, exitVars, retry, data, actHist, cidrCall,
                   SUBNETS, xferCall, routeVars, ebpfCalls>>

\* the idle tick: queryOk is whether get_transfer_stats returns the counters
IdleTickCountersOn(queryOk, elapsed) ==
    IdleTickOn(IF queryOk THEN counters ELSE StatsErr, elapsed)

IdleTickCounters ==
    IF state = "Active"
    THEN \E queryOk \in BOOLEAN, elapsed \in Elapsed : IdleTickCountersOn(queryOk, elapsed)
    ELSE IdleTickCountersOn(FALSE, 0)

\* a tick that comes more than idle_timeout after the stored stamp
LateIdleTick == \E queryOk \in BOOLEAN : IdleTickCountersOn(queryOk, idle_timeout + 1)

NextIdle ==
    \/ Startup
    \/ ProcessCommand
    \/ RingTick
    \/ IdleTickCounters
    \/ Transfer

\* the loop keeps taking commands; the idle timer keeps firing while time
\* passes, and select! picks among the ready branches at random, so a tick
\* that is ready again and again is taken
IdleFairness ==
    /\ WF_vars(Startup)
    /\ WF_vars(ProcessCommand)
    /\ SF_vars(LateIdleTick)

SpecIdle == InitIdle /\ [][NextIdle]_vars /\ IdleFairness

(***************************************************************************)
(* The supervisor with the route manager's gateway cache and the kernel's  *)
(* routes, on a host that moves between networks with different gateways   *)
(* (main.rs 403-492, route_manager.rs 49-98, 112-115).                     *)
(***************************************************************************)
InitGateway ==
    /\ InitCommon
    /\ InitLoaded
    /\ InitRoutes
    /\ InitSsid
    /\ pc = "start"
    /\ nm_connection = FALSE
    /\ ip = IpOutside
    /\ tunnelUp \in {"down", "external"}

\* one command with what it does to the routes: add_routes takes the cached
\* gateway, or detects and caches the network's, and the subnets it comes to
\* track get a route via it; remove_routes deletes the tracked routes and
\* leaves the cache as it is (clear_gateway_cache has no caller)
ProcessCommandRoute ==
    /\ Dispatch
    /\ LET hc == handle_command(state, Head(stateQ))
           tracked == active_routes' \ active_routes
           gw == IF gateway = NoGateway THEN hostGateway ELSE gateway
       IN IF hc.action = "AttachEbpf" /\ tracked # {}
          THEN /\ gateway' = gw
               /\ rtable' = rtable \cup {[dst |-> subnet, via |-> gw, dev |-> interface] :
                                            subnet \in tracked}
          ELSE IF hc.action = "DetachEbpf"
          THEN /\ rtable' = {r \in rtable : r.dst \notin active_routes}
               /\ UNCHANGED gateway
          ELSE UNCHANGED <<gateway, rtable>>
    /\ UNCHANGED <<lastCmd, prevState, lastAction, filterLog, nCmds, cmdLog, actLog,
                   ssidVars, exitVars, retry, data, actHist, cidrCall, SUBNETS, xferCall,
                   hostGateway, routeHist, ebpfCalls, counters>>

\* while off the admitted networks the host joins a network with another gateway
GatewayChange ==
    /\ pc = "run"
    /\ monPc = "running"
    /\ ~was_connected
    /\ \E new \in {GatewayA, GatewayB} \ {hostGateway} : hostGateway' = new
    /\ UNCHANGED <<pc, state, stateQ, netQ, ebpfVars, active_routes, retry_in_progress,
                   tasks, wgVars, monPc, was_connected, envVars, lastNetEvent,
                   attachOutcome, lastCmd, prevState, lastAction, filterLog, nCmds,
                   cmdLog, actLog, ssidVars, exitVars, retry, data, actHist, cidrCall,
                   SUBNETS, xferCall, gateway, rtable, routeHist, ebpfCalls, counters>>

NextGateway ==
    \/ Startup
    \/ MonitorInit
    \/ MonitorSignal
    \/ NetworkEvent
    \/ ProcessCommandRoute
    \/ RingTick
    \/ GatewayChange

SpecGateway == InitGateway /\ [][NextGateway]_vars

(***************************************************************************)
(* Properties.                                                             *)
(***************************************************************************)
FilterAttached == is_attached(EbpfManager)

AllRoutes == active_routes = RangeSet

\* the supervisor takes a command from the channel and finds the state s
Receives(cmd, s) == stateQ # <<>> /\ Head(stateQ) = cmd /\ state = s /\ pc = "run"

\* C1: whenever the kernel filter is attached, the interface's current IPv4
\* address lies in none of the configured subnets.
C1_AttachedOnlyWithoutOverlap ==
    FilterAttached => (ip = NoIP \/ ~ip_in_subnets(ip, ranges))

\* C2: the tunnel is brought up (the step Monitoring -> Activating, which runs
\* ActivateTunnel) only on a TrafficDetected command and only while the last
\* delivered Wi-Fi event is not Disconnected (lastNetEvent is "none" only while
\* the admission comes from the initial check).
C2_ActivateOnlyWhileConnected ==
    [][(state = "Monitoring" /\ state' = "Activating")
        => (Head(stateQ) = "TrafficDetected" /\ lastNetEvent # "Disconnected")]_vars

\* the nine rows of the transition table
TransitionTable ==
    { [from |-> "Inactive", cmd |-> "StartMonitoring", action |-> "AttachEbpf", to |-> "Monitoring"],
      [from |-> "Monitoring", cmd |-> "StopMonitoring", action |-> "DetachEbpf", to |-> "Inactive"],
      [from |-> "Monitoring", cmd |-> "TrafficDetected", action |-> "ActivateTunnel", to |-> "Activating"],
      [from |-> "Monitoring", cmd |-> "TunnelAlreadyUp", action |-> "None", to |-> "Active"],
      [from |-> "Activating", cmd |-> "TunnelUp", action |-> "DetachEbpf", to |-> "Active"],
      [from |-> "Activating", cmd |-> "StopMonitoring", action |-> "DetachEbpf", to |-> "Inactive"],
      [from |-> "Active", cmd |-> "StopMonitoring", action |-> "DeactivateTunnel", to |-> "Deactivating"],
      [from |-> "Active", cmd |-> "IdleTimeout", action |-> "DeactivateTunnel", to |-> "Deactivating"],
      [from |-> "Deactivating", cmd |-> "TunnelDown", action |-> "AttachEbpf", to |-> "Monitoring"] }

IsRow(s, cmd) == \E row \in TransitionTable : row.from = s /\ row.cmd = cmd

\* C3: a new machine is Inactive, and a command that is a row of the table
\* returns the row's action and moves to the row's state.
C3_TableRows ==
    /\ nCmds = 0 => state = "Inactive"
    /\ \A row \in TransitionTable :
         (nCmds > 0 /\ prevState = row.from /\ lastCmd = row.cmd)
            => (lastAction = row.action /\ state = row.to)

C3_Witness ==
    /\ nCmds > 0
    /\ prevState = "Activating" /\ lastCmd = "StopMonitoring"
    /\ lastAction = "DetachEbpf" /\ state = "Inactive"

\* C4: a command that is not a row of the table returns None and leaves the
\* state as it was.
C4_OtherPairsIgnored ==
    (nCmds > 0 /\ ~IsRow(prevState, lastCmd))
        => (lastAction = "None" /\ state = prevState)

C4_Witness ==
    /\ nCmds > 0
    /\ prevState = "Deactivating" /\ lastCmd = "TunnelUp"
    /\ lastAction = "None" /\ state = "Deactivating"

\* C5: the AttachEbpf/DetachEbpf actions returned along a command sequence
\* alternate.
C5_FilterActionsAlternate ==
    \A k \in 1..(Len(filterLog) - 1) : filterLog[k] # filterLog[k + 1]

\* C6: while the state is Active the kernel filter is detached.
C6_ActiveMeansDetached ==
    (pc = "run" /\ state = "Active") => ~FilterAttached

\* C7: while the state is Inactive no monitoring route is tracked, the filter
\* is detached and the tunnel is not up by the daemon's doing.
C7_InactiveMeansClean ==
    (pc = "run" /\ state = "Inactive")
        => (active_routes = {} /\ ~FilterAttached /\ tunnelUp # "daemon")

C9_AtMostOneRetryTask == Len(tasks) <= 1

\* C10: when the supervisor receives RetryEbpfAttachment in Monitoring, after an
\* AttachEbpf that found no address, and the interface has an address now, the
\* AttachEbpf branch runs again: its outcome replaces "no_ip".
C10_RetryRerunsAttach ==
    [][(Receives("RetryEbpfAttachment", "Monitoring") /\ stateQ' = Tail(stateQ)
        /\ attachOutcome = "no_ip" /\ ip # NoIP)
        => attachOutcome' \in {"attached", "overlap", "failed"}]_vars

\* a command of kind cmd is waiting in the state-command channel
Queued(cmd) == \E k \in 1..Len(stateQ) : stateQ[k] = cmd

\* nothing is left to process: both channels are empty
Quiet == pc = "run" /\ stateQ = <<>> /\ netQ = <<>>

\* C11: when Disconnected was the last Wi-Fi event delivered and every command
\* that resulted has been processed, a supervisor that ended in Inactive (where
\* either order of Disconnected and TrafficDetected in Monitoring ends) has the
\* filter detached, no monitoring route and the tunnel it raised down.
C11_RaceEndsClean ==
    (Quiet /\ lastNetEvent = "Disconnected" /\ state = "Inactive")
        => (~FilterAttached /\ active_routes = {} /\ tunnelUp # "daemon")

\* C13: a trigger received after a failed bring_up (Activating, no TunnelUp
\* queued) or a failed bring_down (Deactivating, no TunnelDown queued) makes
\* handle_command return the failed operation again.
C13_FailedOperationRetried ==
    /\ (Receives("TrafficDetected", "Activating") /\ ~Queued("TunnelUp"))
          => handle_command(state, Head(stateQ)).action = "ActivateTunnel"
    /\ (\E cmd \in {"IdleTimeout", "StopMonitoring"} :
            Receives(cmd, "Deactivating") /\ ~Queued("TunnelDown"))
          => handle_command(state, Head(stateQ)).action = "DeactivateTunnel"

\* C14: whenever the filter is attached, a ring tick has a ring buffer to drain.
C14_AttachedMeansDrained ==
    (pc = "run" /\ FilterAttached) => poll_events(EbpfManager)

\* C12: a send of the ring tick always finds room in the state-command
\* channel, which nothing but the loop that is sending receives from: the tick
\* is never waiting at a send with the channel full.
C12_SendFindsRoom ==
    pc = "send" => Len(stateQ) < STATE_COMMAND_CHANNEL_SIZE

TrafficProduced ==
    Len(stateQ') > Len(stateQ) /\ stateQ'[Len(stateQ')] = "TrafficDetected"

\* the supervisor takes the command at the head of the channel in this step
\* (a branch may send one command of its own behind the rest)
Takes(cmd, s) ==
    /\ Receives(cmd, s)
    /\ stateQ' # stateQ
    /\ \/ stateQ' = Tail(stateQ)
       \/ \E sent \in StateCommand : stateQ' = Append(Tail(stateQ), sent)

C17_IdleCycleReattaches ==
    [][/\ Takes("IdleTimeout", "Active") => state' = "Deactivating"
       /\ Takes("TunnelDown", "Deactivating")
            => /\ state' = "Monitoring"
               /\ FilterAttached' => poll_events(EbpfManager)']_vars

\* the supervisor receives the network event ev in this step
Delivers(ev) ==
    pc = "run" /\ netQ # <<>> /\ Head(netQ) = ev /\ netQ' = Tail(netQ)

IdleTimeoutSent ==
    Len(stateQ') = Len(stateQ) + 1 /\ stateQ'[Len(stateQ')] = "IdleTimeout"

\* C19: IdleTimeout is enqueued only in Active and only with a stamp to measure
\* from; an idle tick reading counters stats and age elapsed enqueues it
\* exactly when the state is Active, the stamp exists, the counters did not
\* change (or could not be read) and elapsed is strictly greater than the
\* timeout; in any other state the tick changes neither the stored counters
\* nor the channel.
C19_IdleTimeoutOnlyWhenIdle ==
    [][/\ IdleTimeoutSent => (state = "Active" /\ last_activity /\ last_activity')
       /\ \A stats \in StatsInputs \cup {StatsErr}, elapsed \in Elapsed :
            IdleTickOn(stats, elapsed)
              => /\ IdleTimeoutSent
                      <=> /\ state = "Active"
                          /\ last_activity
                          /\ stats = StatsErr \/ stats = last_bytes
                          /\ elapsed > idle_timeout
                 /\ state # "Active"
                      => UNCHANGED <<stateQ, last_bytes, last_activity>>]_vars

C19_Witness ==
    /\ state = "Active"
    /\ stateQ = <<"IdleTimeout">>
    /\ last_activity
    /\ is_up(tunnelUp)

Emits(ev) == netQ' = Append(netQ, ev)

\* the events the monitor has sent, oldest first, as far as they are still
\* known: the last one the supervisor received, then the ones in the channel
SentEvents ==
    (IF lastNetEvent = "none" THEN <<>> ELSE <<lastNetEvent>>) \o netQ

\* what a step does to the network channel and to was_connected
EdgeTriggeredStep ==
    /\ Len(netQ') > Len(netQ)
         => (Emits("ConnectedToTarget") \/ Emits("Disconnected"))
    /\ Emits("ConnectedToTarget") => (~was_connected /\ was_connected')
    /\ Emits("Disconnected") => (was_connected /\ ~was_connected')
    /\ \A lookup \in Lookups :
         MonitorSignalOn(lookup)
           => /\ lookup = "err" => UNCHANGED <<netQ, was_connected>>
              /\ lookup # "err"
                   => /\ was_connected' = (lookup = "true")
                      /\ (netQ' # netQ) <=> (was_connected' # was_connected)

\* C20: the Wi-Fi monitor is edge-triggered.  The network channel grows only
\* by one event of the monitor; ConnectedToTarget is sent only by a signal
\* that finds was_connected false and sets it, Disconnected only by one that
\* finds it true and clears it; a signal whose lookup succeeds sends exactly
\* when was_connected changes, and one whose lookup fails sends nothing and
\* leaves was_connected as it was.  So the events sent alternate: no two
\* successive ones are equal, and the latest one agrees with was_connected.
C20_MonitorEdgeTriggered ==
    /\ [][EdgeTriggeredStep]_vars
    /\ [](/\ \A k \in 1..(Len(SentEvents) - 1) : SentEvents[k] # SentEvents[k + 1]
          /\ netQ # <<>>
               => (was_connected <=> netQ[Len(netQ)] = "ConnectedToTarget"))

C20_Witness ==
    /\ lastNetEvent = "ConnectedToTarget"
    /\ netQ = <<"Disconnected">>
    /\ ~was_connected
    /\ monPc = "running"
\* the admission predicate for the current SSID and the two lists
Admitted ==
    /\ current_ssid # NoSsid
    /\ \A k \in 1..Len(exclude_ssids) : exclude_ssids[k] # current_ssid[1]
    /\ \/ target_ssids = <<>>
       \/ \E k \in 1..Len(target_ssids) : target_ssids[k] = current_ssid[1]

\* what the steps that call is_connected_to_target do with its result
AdmissionStep ==
    /\ \A ok \in BOOLEAN :
         /\ (MonitorInitAdmitOn(ok) /\ ok) => (was_connected' = Admitted)
         /\ (MonitorSignalAdmitOn(ok) /\ ok) => (was_connected' = Admitted)
         /\ StartupAdmitOn(ok)
              => ((stateQ' # <<>> /\ stateQ'[1] = "StartMonitoring") <=> (ok /\ Admitted))
    /\ Emits("ConnectedToTarget") => Admitted
    /\ (Len(stateQ') > Len(stateQ) /\ stateQ'[Len(stateQ) + 1] = "StartMonitoring")
         => (Admitted /\ pc = "start") \/ Delivers("ConnectedToTarget")

\* C21: is_connected_to_target admits the current SSID exactly when there is
\* one, it is not in the exclude list, and the target list is empty or holds
\* it.  The initial check queues StartMonitoring exactly when the lookup
\* succeeds and the SSID is admitted, the monitor stores the admission in
\* was_connected, ConnectedToTarget is sent only for an admitted SSID, and
\* StartMonitoring is queued only by the initial check of an admitted SSID or
\* for a delivered ConnectedToTarget: with an empty target list and Work
\* excluded, being on Work produces neither.
C21_AdmissionPredicate ==
    /\ [](is_connected_to_target(TRUE, current_ssid, target_ssids, exclude_ssids)
            = (IF Admitted THEN "true" ELSE "false"))
    /\ [][AdmissionStep]_vars

C21_Witness ==
    /\ target_ssids = <<>>
    /\ exclude_ssids = <<"Work">>
    /\ current_ssid = <<"Work">>
    /\ monPc = "running"
    /\ ~was_connected
    /\ lastNetEvent = "Disconnected"
    /\ netQ = <<>>
\* the process has ended
Exited == pc \in {"exit_ok", "exit_err", "panicked"}

\* what the supervisor does once the monitor task has ended
MonitorFatalStep ==
    /\ (pc = "run" /\ pc' = "bailed") => monPc \in MonitorEnded
    /\ MonitorBranch => (pc' = "bailed" /\ UNCHANGED <<state, stateQ, netQ>>)
    /\ pc = "bailed"
         => /\ pc' \in {"exit_err", "panicked"}
            /\ UNCHANGED <<state, stateQ, netQ, wgVars, tunnelUp, retry_in_progress,
                           tasks, state_file, cmdLog, actLog>>
    /\ ~Exited

\* C22: when the monitor task has ended, whether it returned Ok, returned an
\* error or panicked, the supervisor's loop can take the monitor branch; taking
\* it leaves the loop by bail! without touching the state or the channels;
\* after that the process only drops its locals and ends with a non-zero
\* status (an Err from main, or a panic), receiving no command and no event;
\* and an ended process takes no step at all.
C22_MonitorEndIsFatal ==
    /\ []((pc = "run" /\ monPc \in MonitorEnded) => ENABLED MonitorBranch)
    /\ [][MonitorFatalStep]_vars

C22_Witness ==
    /\ pc = "exit_err"
    /\ monPc = "ok"
    /\ state = "Active"
    /\ stateQ # <<>>
\* C23: after a signal the supervisor leaves its loop and runs the shutdown
\* tail; when graceful_shutdown returns the state file is removed, the filter
\* is detached (by detach, if it was attached) and bring_down was called
\* exactly if the state was Active or Activating; and when the locals have
\* been dropped after it, the process ends with status 0 and no monitoring
\* route is left.
C23_GracefulShutdown ==
    [][/\ pc = "shutdown"
            => /\ pc' = "returned"
               /\ ~state_file'
               /\ ~FilterAttached'
               /\ FilterAttached => "detach" \in shutdownDid'
               /\ "bring_down" \in shutdownDid' <=> state \in {"Active", "Activating"}
       /\ pc = "returned"
            => /\ pc' = "exit_ok"
               /\ active_routes' = {}
               /\ ~FilterAttached' /\ ~state_file']_vars
RECURSIVE SleepsBefore(_)
\* 1 + 2 + ... + 2^(k-1): the seconds slept when probe k is made
SleepsBefore(k) == IF k = 0 THEN 0 ELSE SleepsBefore(k - 1) + Pow2(k - 1)

\* what holds of a retry task at every point of its run
RetryTaskBounded ==
    /\ retry.probes <= 5 /\ retry.slept <= 31
    /\ retry.pc = "sleep"
         => /\ retry.attempt \in 1..5
            /\ retry.probes = retry.attempt - 1
            /\ retry.delay_secs = Pow2(retry.attempt - 1)
            /\ retry.slept = SleepsBefore(retry.attempt - 1)
    /\ retry.pc = "probe"
         => /\ retry.attempt \in 1..5
            /\ retry.probes = retry.attempt - 1
            /\ retry.slept = SleepsBefore(retry.attempt)
            /\ ~retry.found
    /\ retry.found => (retry.pc \in {"send", "clear", "done"} /\ retry.probes = retry.attempt)
    /\ (retry.pc \in {"clear", "done"} /\ ~retry.found)
         => (retry.probes = 5 /\ retry.slept = 31)
    /\ retry.pc = "done" => ~retry_in_progress
    /\ retry.pc \in {"sleep", "probe", "send", "clear"} => retry_in_progress

\* a spawned task ends, unless its send waits on a full command channel
RetryTaskEnds ==
    retry.pc = "sleep" ~> (retry.pc = "done" \/ (retry.pc = "send" /\ Len(stateQ) = MaxPending))

RecordLengthStep ==
    /\ (pc = "drain" /\ data' \notin {NoRecord, TrafficEventSize})
         => (pc' = "drain" /\ stateQ' = stateQ)
    /\ (pc \in {"drain", "send"} /\ stateQ' # stateQ)
         => /\ pc = "send"
            /\ data = TrafficEventSize
            /\ stateQ' = Append(stateQ, "TrafficDetected")
            /\ pc' = "drain"

\* C25: the record the drain turns into a TrafficDetected command is exactly
\* 16 bytes long; a record of any other length, shorter or longer, is skipped
\* without a command, and the drain goes on to the next record.
C25_RecordLengthExact ==
    /\ TrafficEventSize = 16
    /\ [](pc = "send" => data = TrafficEventSize)
    /\ [][RecordLengthStep]_vars

C25_Witness ==
    /\ pc = "drain"
    /\ data = 24
    /\ stateQ # <<>>
    /\ stateQ[Len(stateQ)] = "TrafficDetected"
\* the last call left the fields as it found them
ActivityUntouched ==
    /\ last_bytes = actHist.pre_bytes
    /\ last_activity = actHist.pre_activity
    /\ actHist.stamp = actHist.pre_stamp

\* C26: check_activity stores the pair read, stamps last_activity with the
\* time of the call and returns true when the pair differs from the stored
\* one in either component; returns false and changes nothing when both are
\* equal; returns an error and changes nothing when the query fails.
\* reset_activity stores (0, 0) and stamps last_activity.  idle_duration is
\* None until the first stamp and the time since the stamp afterwards.
C26_ActivityTracking ==
    /\ last_activity <=> actHist.stamp # -1
    /\ actHist.call = "check_activity" =>
         IF actHist.stats = StatsErr
         THEN actHist.ret = "err" /\ ActivityUntouched
         ELSE IF actHist.stats[1] # actHist.pre_bytes[1] \/ actHist.stats[2] # actHist.pre_bytes[2]
              THEN /\ actHist.ret = "true"
                   /\ last_bytes = actHist.stats
                   /\ last_activity
                   /\ actHist.stamp = actHist.at
              ELSE actHist.ret = "false" /\ ActivityUntouched
    /\ actHist.call = "reset_activity" =>
         (last_bytes = <<0, 0>> /\ last_activity /\ actHist.stamp = actHist.at)
    /\ actHist.call = "idle_duration" =>
         /\ ActivityUntouched
         /\ actHist.dur = IF actHist.pre_stamp = -1 THEN -1
                          ELSE actHist.at - actHist.pre_stamp

C26_Witness ==
    /\ actHist.call = "check_activity"
    /\ actHist.pre_bytes = <<1, 0>>
    /\ actHist.stats = <<1, 1>>
    /\ actHist.ret = "true"
    /\ actHist.pre_stamp # -1
    /\ actHist.stamp > actHist.pre_stamp
\* the supervisor's DeactivateTunnel branch pushed TunnelDown in this step
PushesTunnelDown ==
    /\ stateQ # <<>>
    /\ handle_command(state, Head(stateQ)).action = "DeactivateTunnel"
    /\ stateQ' = Append(Tail(stateQ), "TunnelDown")

\* C27: the supervisor pushes TunnelDown only when bring_down left the tunnel
\* down, because bring_down returns an error for every tool failure whose
\* stderr is not the benign fragment, with NetworkManager as with wg-quick.
C27_TunnelDownOnlyWhenDown ==
    [][PushesTunnelDown => tunnelUp' = "down"]_vars
\* the octet whose n leading bits are set
LeadingOnes(n) == <<0, 128, 192, 224, 240, 248, 252, 254, 255>>[n + 1]

\* the u32 of all ones shifted left by 32 - p, for 1 <= p <= 32: bits 1..p set
OnesShl(p) ==
    [i \in 1..4 |-> LeadingOnes(IF p >= 8 * i THEN 8
                                ELSE IF p <= 8 * (i - 1) THEN 0 ELSE p - 8 * (i - 1))]

Not32(x) == [i \in 1..4 |-> 255 - x[i]]

NumSlashes(text) == Cardinality({i \in 1..Len(text) : text[i] = Slash})

\* C28: for an address a.b.c.d and a prefix p in 0..32, parse_cidr("a.b.c.d/p")
\* returns mask 0 for p = 0 and all ones shifted left by 32 - p otherwise,
\* and network = ip AND mask, so that network AND NOT mask = 0; a string
\* without exactly one '/', with a prefix above 32 or with an invalid
\* address part is rejected.
C28_ParseCidr ==
    cidrCall.fn = "parse_cidr" =>
        /\ \A addr \in CidrAddrs, p \in 0..32 :
              cidrCall.text = CidrText(addr, p) =>
                  /\ cidrCall.ok
                  /\ cidrCall.mask = IF p = 0 THEN <<0, 0, 0, 0>> ELSE OnesShl(p)
                  /\ cidrCall.network = And32(addr, cidrCall.mask)
                  /\ And32(cidrCall.network, Not32(cidrCall.mask)) = <<0, 0, 0, 0>>
        /\ NumSlashes(cidrCall.text) # 1 => ~cidrCall.ok
        /\ cidrCall.text \in BadCidrTexts => ~cidrCall.ok
        /\ cidrCall.ok => \E addr \in CidrAddrs, p \in 0..32 : cidrCall.text = CidrText(addr, p)

C28_Witness ==
    /\ cidrCall.fn = "parse_cidr"
    /\ cidrCall.text = CidrText(<<192, 168, 1, 100>>, 24)
    /\ cidrCall.ok
    /\ cidrCall.network = <<192, 168, 1, 0>>
    /\ cidrCall.mask = <<255, 255, 255, 0>>
\* bit j (1 is the most significant, 32 the least) of a 32-bit value
Bit(x, j) == (x[((j - 1) \div 8) + 1] \div Pow2(7 - ((j - 1) % 8))) % 2

\* the address agrees with the subnet's address in the first prefix bits
SharesPrefix(addr, cidr) == \A j \in 1..cidr.prefix : Bit(addr, j) = Bit(cidr.addr, j)

\* C29: ip_in_subnets(ip, subnets) is true exactly when the address shares
\* the prefix bits of some subnet in the list, which is (ip AND mask) =
\* network for that subnet: the network and broadcast addresses are inside,
\* an address that differs in a prefix bit is outside that subnet, subnets
\* may overlap, and 0.0.0.0/0 holds every address.
C29_IpInSubnets ==
    cidrCall.fn = "ip_in_subnets" =>
        /\ cidrCall.contained
              <=> \E k \in 1..Len(cidrCall.subnets) : SharesPrefix(cidrCall.ip, cidrCall.subnets[k])
        /\ cidrCall.contained
              <=> \E k \in 1..Len(cidrCall.subnets) :
                     And32(cidrCall.ip, parse_cidr(cidrCall.subnets[k]).mask)
                         = parse_cidr(cidrCall.subnets[k]).network
        /\ (\E k \in 1..Len(cidrCall.subnets) : cidrCall.subnets[k].prefix = 0)
              => cidrCall.contained

C29_Witness ==
    /\ cidrCall.fn = "ip_in_subnets"
    /\ cidrCall.ip = <<192, 168, 1, 255>>
    /\ cidrCall.subnets = << [addr |-> <<10, 0, 0, 0>>, prefix |-> 8],
                             [addr |-> <<192, 168, 1, 0>>, prefix |-> 24] >>
    /\ cidrCall.contained
\* slot i of the array (i from 0) after load was given subnets
LoadedSlot(subnets, i) ==
    IF i < Len(subnets)
    THEN <<parse_cidr(subnets[i + 1]).network, parse_cidr(subnets[i + 1]).mask>>
    ELSE <<<<255, 255, 255, 255>>, <<255, 255, 255, 255>>>>

\* the array is as load wrote it
SubnetsLoaded ==
    /\ Len(SUBNETS) = 16
    /\ \A i \in 0..15 : SUBNETS[i + 1] = LoadedSlot(cidrCall.subnets, i)

\* C30: once load has returned, slot i of the 16-slot array holds
\* parse_cidr(subnet_i) for i < n and the sentinel (0xFFFFFFFF, 0xFFFFFFFF)
\* for i >= n; the classifier is attached only after that, and no step after
\* load (attach, detach or any other action of the supervisor) writes the
\* array again.
C30_SubnetArrayWrittenOnce ==
    /\ []((cidrCall.fn = "load" /\ cidrCall.ok) => SubnetsLoaded)
    /\ [](link_id => (cidrCall.fn = "load" /\ cidrCall.ok /\ SubnetsLoaded))
    /\ [][SUBNETS' # SUBNETS => (pc = "load" /\ ~link_id /\ ~link_id')]_vars

C30_Witness ==
    /\ cidrCall.fn = "load"
    /\ Len(cidrCall.subnets) = 15
    /\ SUBNETS[15] = <<<<10, 15, 0, 0>>, <<255, 255, 252, 0>>>>
    /\ SUBNETS[16] = <<<<255, 255, 255, 255>>, <<255, 255, 255, 255>>>>
    /\ ~link_id
    /\ "DetachEbpf" \in {actLog[k] : k \in 1..Len(actLog)}
\* a line the sum counts: at least 3 fields, fields 2 and 3 both u64
WellFormedLine(line) ==
    /\ Len(line) >= 3
    /\ line[2].k = "dec" /\ line[2].v[1] = 0
    /\ line[3].k = "dec" /\ line[3].v[1] = 0

\* x + y on five limbs, wide enough for MaxLines values
AddWide(x, y) ==
    LET s5 == x[5] + y[5]
        s4 == x[4] + y[4] + (s5 \div Limb)
        s3 == x[3] + y[3] + (s4 \div Limb)
        s2 == x[2] + y[2] + (s3 \div Limb)
        s1 == x[1] + y[1] + (s2 \div Limb)
    IN <<s1, s2 % Limb, s3 % Limb, s4 % Limb, s5 % Limb>>

RECURSIVE FieldSum(_, _)
\* the sum of field f over the well-formed lines, as a number
FieldSum(output, f) ==
    IF output = <<>> THEN <<0, 0, 0, 0, 0>>
    ELSE IF WellFormedLine(Head(output))
         THEN AddWide(Head(output)[f].v, FieldSum(Tail(output), f))
         ELSE FieldSum(Tail(output), f)

\* C31: for every output, parse_wg_transfer_output returns rx equal to the
\* sum of field 2 and tx equal to the sum of field 3 over exactly the
\* well-formed lines, whatever the order of the lines, also when the values
\* add up to more than 2^64 - 1.
C31_TransferSums ==
    xferCall.fn = "parse_wg_transfer_output" =>
        /\ ~xferCall.panicked
        /\ <<0>> \o xferCall.rx = FieldSum(xferCall.output, 2)
        /\ <<0>> \o xferCall.tx = FieldSum(xferCall.output, 3)
\* what a call of the route manager does to the tracked set and the table
RouteTrackingStep ==
    /\ AddRoutes =>
         /\ \A c \in routeHist'.cmds : c.op = "add" /\ c.subnet \notin active_routes
         /\ active_routes \subseteq active_routes'
         /\ \A subnet \in active_routes' \ active_routes :
               [dst |-> subnet, via |-> gateway', dev |-> interface] \in rtable'
    /\ RemoveRoutes =>
         /\ {c.subnet : c \in routeHist'.cmds} = active_routes
         /\ \A c \in routeHist'.cmds : c.op = "del"
         /\ active_routes' = {}

\* C32: add_routes runs a route add only for subnets it does not track and
\* tracks a subnet only when the kernel then holds the route to it via the
\* manager's gateway and interface (the add succeeded, or the route was
\* there already), so a repeated add_routes runs nothing for the tracked
\* subnets; remove_routes runs a route delete for every tracked subnet and
\* leaves the tracked set empty whatever the deletes return.
C32_RouteTracking == [][RouteTrackingStep]_vars
\* what the initial check enqueues
StartupStep ==
    \A ok \in BOOLEAN :
        StartupAdmitOn(ok) =>
            /\ monPc = "unspawned" /\ monPc' = "unspawned"
            /\ state = "Inactive" /\ state' = "Inactive"
            /\ stateQ' = IF ok /\ Admitted /\ tunnelUp # "down"
                         THEN <<"StartMonitoring", "TunnelAlreadyUp">>
                         ELSE IF ok /\ Admitted THEN <<"StartMonitoring">>
                         ELSE <<>>

\* the commands of the initial check are the first the machine receives
StartupCommandsFirst ==
    /\ (pc = "run" /\ cmdLog = <<>>) => state = "Inactive"
    /\ \A k \in 1..Len(stateQ) : stateQ[k] = "TunnelAlreadyUp" =>
          /\ Len(cmdLog) + k = 2
          /\ (cmdLog \o stateQ)[1] = "StartMonitoring"
          /\ state = IF k = 2 THEN "Inactive" ELSE "Monitoring"
    /\ \A k \in 1..Len(cmdLog) : cmdLog[k] = "TunnelAlreadyUp" =>
          /\ k = 2
          /\ SubSeq(cmdLog, 1, 2) = <<"StartMonitoring", "TunnelAlreadyUp">>
          /\ SubSeq(actLog, 1, 2) = <<"AttachEbpf", "None">>
          /\ Len(cmdLog) = 2 => (state = "Active" /\ tunnelUp = "external")
    /\ (Len(cmdLog) = 1 /\ cmdLog[1] = "StartMonitoring" /\ lastNetEvent = "none")
          => state = "Monitoring"

\* C33: the initial check, made before the monitor task is spawned, enqueues
\* StartMonitoring then TunnelAlreadyUp when the host is on an admitted
\* network and the tunnel interface exists, and the machine then goes
\* Inactive -> Monitoring -> Active with the actions AttachEbpf and None,
\* bring_up not being called; it enqueues only StartMonitoring when admitted
\* with the tunnel down; it enqueues nothing when not admitted or when the
\* lookup fails, and the machine stays Inactive.
C33_StartupSequence == []StartupCommandsFirst /\ [][StartupStep]_vars

C33_Witness ==
    /\ cmdLog = <<"StartMonitoring", "TunnelAlreadyUp">>
    /\ actLog = <<"AttachEbpf", "None">>
    /\ state = "Active"
    /\ tunnelUp = "external"
    /\ stateQ = <<"TrafficDetected">>

\* C34: after any sequence of attach() and detach() calls, each succeeding
\* or failing, is_attached() holds exactly when poll_events() yields a ring
\* buffer, the second and later attach after a detach included.
C34_AttachedIffRingBuffer ==
    is_attached(EbpfManager) <=> poll_events(EbpfManager)

\* C35: the kernel's is_target_subnet over the array load wrote gives, for
\* every destination address, what ip_in_subnets gives over the same subnet
\* list, 255.255.255.255/32 included.
C35_KernelMatchesUserspace ==
    cidrCall.fn = "is_target_subnet" =>
        (cidrCall.contained <=> ip_in_subnets(cidrCall.ip, cidrCall.subnets))

\* the last network event delivered is Disconnected and nothing it led to is
\* still to be processed
DisconnectedSettled ==
    /\ lastNetEvent = "Disconnected"
    /\ stateQ = <<>>
    /\ netQ = <<>>
    /\ tasks = <<>>

\* C36: whatever the state in which Disconnected is delivered (Monitoring,
\* Activating, Active or Deactivating), once every command it led to has been
\* processed and no Connected has arrived since, the supervisor is Inactive,
\* the filter is detached, the monitoring routes are removed and the daemon
\* has left no tunnel up.
C36_DisconnectedTearsDown ==
    DisconnectedSettled =>
        /\ state = "Inactive"
        /\ ~is_attached(EbpfManager)
        /\ active_routes = {}
        /\ tunnelUp # "daemon"

\* the state machine was handed a StartMonitoring
StartMonitoringReceived == \E k \in 1..Len(cmdLog) : cmdLog[k] = "StartMonitoring"

\* C37: when the host is on an admitted SSID once the monitor task has
\* initialised was_connected, and stays on it, the state machine eventually
\* receives StartMonitoring (and so leaves Inactive), whatever the host's
\* network was at the supervisor's initial check.
C37_StartMonitoringEventually ==
    (monPc = "running" /\ Admitted) ~> (~Admitted \/ StartMonitoringReceived)

\* an IdleTimeout is in the command channel
IdleTimeoutIssued == \E k \in 1..Len(stateQ) : stateQ[k] = "IdleTimeout"

\* C38: while the state stays Active and the transfer counters have stopped
\* changing, an IdleTimeout is eventually issued, idle ticks firing on:
\* whether Active was entered by TunnelUp or by TunnelAlreadyUp, and also
\* when the counter query fails on every tick.
C38_IdleTimeoutEventually ==
    (state = "Active") ~> (state # "Active" \/ IdleTimeoutIssued)

\* the process has ended: async_main returned, or unwound
ProcessEnded == pc \in {"exit_ok", "exit_err", "panicked"}

\* C39: on every path by which the supervisor stops (a signal, the bail on
\* the monitor's termination, a failed send of a state command), a tunnel the
\* daemon brought up has been taken down, or bring_down has at least been
\* called on it, when the process ends, whatever the state was.
C39_TunnelDownOnExit ==
    ProcessEnded => (tunnelUp # "daemon" \/ "bring_down" \in shutdownDid)

\* the routes a step installs go via the gateway of the host's network
RoutesViaCurrentGateway == \A r \in rtable' \ rtable : r.via = hostGateway

\* C40: every monitoring route add_routes installs goes via the gateway of
\* the network the host is on at that moment; after a Disconnected and a
\* later Connected on a network with another gateway, the routes of the next
\* AttachEbpf use the new gateway, not the cached one.
C40_RoutesViaCurrentGateway == [][RoutesViaCurrentGateway]_vars
====
